---- MODULE Spec2Model ----
(***************************************************************************)
(* The request routing and learning engine of the orchestrator             *)
(* (src/agents/orchestrator_agent.py): keyword scoring of a request,       *)
(* confidence-gated selection of a handler, response validation, fallback  *)
(* escalation, and the routing-history log with its persisted copy.        *)
(*                                                                         *)
(* Python values are encoded as follows.  A str that the code inspects     *)
(* character by character (a request, a keyword) is a sequence of          *)
(* one-character strings; a request is kept in the state as the sequence   *)
(* of its words and RequestText joins them with single spaces.  A dict is  *)
(* a record, and "key in d" is "key \in DOMAIN d".  None is the string     *)
(* "None".  A float quotient a / b is the reduced fraction <<a', b'>>.     *)
(* Timestamps are left out of the entries.                                 *)
(***************************************************************************)
EXTENDS Integers, Sequences, FiniteSets, TLC

VARIABLES
  routing_config,   \* self.routing_config
  routing_history,  \* self.routing_history, the in-memory log
  feedback_file,    \* the 'routing_history' list of orchestrator_feedback.json, or NoFile
  pc,               \* position of the one request being served
  request,          \* argument of route_request
  intent,           \* intent_analysis
  context,          \* the context handed to _fallback_to_llm
  response,         \* what route_request returned
  calls,            \* the agent.run calls made for the current request and their outcomes
  logged,           \* the entries log_routing_decision appended for the current request
  io,               \* the reads and writes of the file made by the current operation
  peer_history,     \* self.routing_history of a second router on the same file
  analysis          \* the locals of an analyze_routing_patterns call under way

vars == <<routing_config, routing_history, feedback_file, pc, request, intent,
          context, response, calls, logged, io, peer_history, analysis>>

None == "None"
NoDict == [none |-> TRUE]
NoFile == "NoFile"

(***************************************************************************)
(* Bounds of the model.                                                    *)
(***************************************************************************)
\* a request of the classification runs has at most MaxWords words
MaxWords == 2
\* stands for the 1000 of routing_history[-1000:] (orchestrator_agent.py:91),
\* scaled so that a log longer than the retention bound is reachable
KeepLast == 1
\* stands for the 10 of len(routing_history) % 10 (orchestrator_agent.py:118)
SavePeriod == 2
\* the router takes requests and feedback while the log is no longer than the
\* retention bound, so that the log outgrows it by one entry
MaxHistory == KeepLast + 1

\* the window of the similarity search (stands for the 100 of line 531) and
\* the number of matches reported (stands for the 5 of line 549)
WindowSize == 2

TopSimilar == 1

(***************************************************************************)
(* Strings.                                                                *)
(***************************************************************************)
\* the words requests are made of
WordChars ==
  ("how many" :> <<"h","o","w"," ","m","a","n","y">>)
  @@ ("VPCs" :> <<"V","P","C","s">>)
  @@ ("EC2" :> <<"E","C","2">>)
  @@ ("microservices" :> <<"m","i","c","r","o","s","e","r","v","i","c","e","s">>)
  @@ ("unreachable" :> <<"u","n","r","e","a","c","h","a","b","l","e">>)
  @@ ("HTTPS" :> <<"H","T","T","P","S">>)
  @@ ("port" :> <<"p","o","r","t">>)
  @@ ("DNS" :> <<"D","N","S">>)
  @@ ("life" :> <<"l","i","f","e">>)
  @@ ("help" :> <<"h","e","l","p">>)

\* the ways a command given to run() starts
CommandChars ==
  ("analyze routing" :> <<"a","n","a","l","y","z","e"," ","r","o","u","t","i","n","g">>)
  @@ ("Analyze Routing" :> <<"A","n","a","l","y","z","e"," ","R","o","u","t","i","n","g">>)
  @@ ("routing recommendations" :> <<"r","o","u","t","i","n","g"," ","r","e","c","o","m","m","e","n","d","a","t","i","o","n","s">>)
  @@ ("routing recommendations for:" :> <<"r","o","u","t","i","n","g"," ","r","e","c","o","m","m","e","n","d","a","t","i","o","n","s"," ","f","o","r",":">>)
  @@ ("Routing Recommendations for:" :> <<"R","o","u","t","i","n","g"," ","R","e","c","o","m","m","e","n","d","a","t","i","o","n","s"," ","f","o","r",":">>)

CommandWords == DOMAIN CommandChars

Vocabulary == DOMAIN WordChars

\* str.lower() on the letters that occur
LowerMap ==
  ("A" :> "a")
  @@ ("C" :> "c")
  @@ ("D" :> "d")
  @@ ("E" :> "e")
  @@ ("H" :> "h")
  @@ ("N" :> "n")
  @@ ("P" :> "p")
  @@ ("R" :> "r")
  @@ ("S" :> "s")
  @@ ("T" :> "t")
  @@ ("V" :> "v")

RECURSIVE lower(_)
lower(s) ==
  IF s = <<>> THEN <<>>
  ELSE <<IF Head(s) \in DOMAIN LowerMap THEN LowerMap[Head(s)] ELSE Head(s)>> \o lower(Tail(s))

\* the text of a request: its words joined by single spaces
RECURSIVE RequestText(_)
RequestText(ws) ==
  LET chars(w) == IF w \in CommandWords THEN CommandChars[w] ELSE WordChars[w]
  IN IF ws = <<>> THEN <<>>
     ELSE IF Len(ws) = 1 THEN chars(ws[1])
     ELSE chars(ws[1]) \o <<" ">> \o RequestText(Tail(ws))

\* Python's "sub in s" for str
Contains(sub, s) ==
  \E i \in 1..(Len(s) - Len(sub) + 1) : \A k \in 1..Len(sub) : s[i + k - 1] = sub[k]

(***************************************************************************)
(* self.tools: the registry, in declaration order.                         *)
(***************************************************************************)
aws_resource_keywords ==
  <<
    <<"e","c","2">>, <<"s","3">>, <<"e","b","s">>, <<"v","p","c">>, <<"n","l","b">>,
    <<"a","l","b">>, <<"e","l","b">>, <<"e","k","s">>,
    <<"c","l","o","u","d","w","a","t","c","h">>,
    <<"c","l","o","u","d","t","r","a","i","l">>, <<"e","f","s">>,
    <<"s","e","c","u","r","i","t","y">>, <<"g","r","o","u","p">>,
    <<"i","n","s","t","a","n","c","e">>, <<"b","u","c","k","e","t">>, <<"l","o","a","d">>,
    <<"b","a","l","a","n","c","e","r">>, <<"f","i","l","e","s","y","s","t","e","m">>,
    <<"r","e","s","o","u","r","c","e">>, <<"l","i","s","t">>, <<"s","h","o","w">>,
    <<"g","e","t">>, <<"d","e","s","c","r","i","b","e">>, <<"i","n","f","o">>,
    <<"b","r","e","a","k","d","o","w","n">>, <<"c","o","u","n","t">>, <<"e","a","c","h">>,
    <<"t","y","p","e">>, <<"s","t","a","t","e">>, <<"s","u","m","m","a","r","y">>,
    <<"h","o","w"," ","m","a","n","y">>, <<"t","o","t","a","l">>,
    <<"r","u","n","n","i","n","g">>, <<"s","t","o","p","p","e","d">>,
    <<"m","i","c","r","o">>, <<"s","m","a","l","l">>, <<"s","u","b","n","e","t">>,
    <<"l","a","m","b","d","a">>, <<"f","u","n","c","t","i","o","n">>, <<"r","d","s">>,
    <<"d","a","t","a","b","a","s","e">>, <<"v","o","l","u","m","e">>,
    <<"s","n","a","p","s","h","o","t">>, <<"g","a","t","e","w","a","y">>,
    <<"r","o","u","t","e">>, <<"s","e","r","v","i","c","e","s">>, <<"a","w","s">>
  >>

network_troubleshoot_keywords ==
  <<
    <<"c","o","n","n","e","c","t","i","v","i","t","y">>,
    <<"c","o","n","n","e","c","t","i","o","n">>, <<"n","e","t","w","o","r","k">>,
    <<"t","r","o","u","b","l","e","s","h","o","o","t">>,
    <<"d","i","a","g","n","o","s","e">>, <<"p","i","n","g">>, <<"p","o","r","t">>,
    <<"d","n","s">>, <<"r","e","s","o","l","v","e">>, <<"t","r","a","c","e">>,
    <<"i","s","s","u","e">>, <<"p","r","o","b","l","e","m">>, <<"e","r","r","o","r">>,
    <<"f","a","i","l">>, <<"t","i","m","e","o","u","t">>,
    <<"u","n","r","e","a","c","h","a","b","l","e">>, <<"m","o","u","n","t">>,
    <<"a","c","c","e","s","s">>, <<"c","o","m","m","u","n","i","c","a","t","i","o","n">>,
    <<"s","s","h">>, <<"h","t","t","p">>, <<"h","t","t","p","s">>
  >>

tools ==
  << [name |-> "aws_resource_tool", keywords |-> aws_resource_keywords, is_fallback |-> FALSE],
     [name |-> "network_troubleshoot_tool", keywords |-> network_troubleshoot_keywords,
      is_fallback |-> FALSE],
     [name |-> "general_llm_tool", keywords |-> <<>>, is_fallback |-> TRUE] >>

ToolNames == {tools[i].name : i \in DOMAIN tools}

\* specialized_tools: the indices of the non-fallback tools, in registry order
specialized_tools == {i \in DOMAIN tools : ~tools[i].is_fallback}

(***************************************************************************)
(* Fractions, for confidence = best_score / total_score.                   *)
(***************************************************************************)
RECURSIVE GCD(_, _)
GCD(a, b) == IF b = 0 THEN a ELSE GCD(b, a % b)

Frac(a, b) == <<a \div GCD(a, b), b \div GCD(a, b)>>

FracGeq(x, y) == x[1] * y[2] >= y[1] * x[2]

One == Frac(1, 1)
Zero == Frac(0, 1)

(***************************************************************************)
(* Configuration (orchestrator_agent.py:61-68).                            *)
(***************************************************************************)
DefaultConfig ==
  [ min_confidence_threshold |-> Frac(1, 2),
    min_keyword_matches |-> 2,
    enable_fallback |-> TRUE,
    fallback_for_errors |-> TRUE,
    validate_responses |-> TRUE,
    enable_learning |-> TRUE ]

(***************************************************************************)
(* analyze_request_intent (orchestrator_agent.py:162-224).                 *)
(***************************************************************************)
\* lines 170-183: one entry per specialized tool; a keyword counts once
tool_scores(request_lower) ==
  [ n \in {tools[i].name : i \in specialized_tools} |->
      LET kw == (CHOOSE i \in specialized_tools : tools[i].name = n)
          matched == SelectSeq(tools[kw].keywords, LAMBDA k : Contains(k, request_lower))
      IN [score |-> Len(matched), matched_keywords |-> matched] ]

\* the choice that takes the last of the tools of maximal score
best_tool_LastWins(scores) ==
  LET last == CHOOSE i \in specialized_tools :
                /\ \A j \in specialized_tools :
                     scores[tools[j].name].score <= scores[tools[i].name].score
                /\ \A j \in specialized_tools :
                     scores[tools[j].name].score = scores[tools[i].name].score => j <= i
  IN tools[last].name

\* line 187: max() over the keys returns the first key, in the dict's insertion
\* order, whose score is maximal
best_tool(scores) ==
  LET first == CHOOSE i \in specialized_tools :
                 /\ \A j \in specialized_tools : scores[tools[j].name].score <= scores[tools[i].name].score
                 /\ \A j \in specialized_tools :
                      scores[tools[j].name].score = scores[tools[i].name].score => i <= j
  IN tools[first].name

RECURSIVE SumScores(_, _)
SumScores(scores, names) ==
  IF names = {} THEN 0
  ELSE LET n == CHOOSE x \in names : TRUE
       IN scores[n].score + SumScores(scores, names \ {n})

\* line 191
total_score(scores) == SumScores(scores, DOMAIN scores)

\* the confidence with the fallback tool counted as one more match
confidence_of_Smoothed(best_score, total) ==
  IF total > 0 THEN Frac(best_score, total + 1) ELSE Zero

\* line 192
confidence_of(best_score, total) ==
  IF total > 0 THEN Frac(best_score, IF total > 1 THEN total ELSE 1) ELSE Zero

\* the gate with the keyword count compared strictly
meets_thresholds_StrictCount(best_score, confidence, config) ==
  /\ best_score > 0
  /\ FracGeq(confidence, config.min_confidence_threshold)
  /\ best_score > config.min_keyword_matches

\* the gate without the confidence test
meets_thresholds_NoConfidence(best_score, confidence, config) ==
  /\ best_score > 0
  /\ best_score >= config.min_keyword_matches

\* lines 195-198
meets_thresholds(best_score, confidence, config) ==
  /\ best_score > 0
  /\ FracGeq(confidence, config.min_confidence_threshold)
  /\ best_score >= config.min_keyword_matches

\* line 215
fallback_reason_of(scores) ==
  IF DOMAIN scores # {} THEN "low_confidence" ELSE "no_keywords_matched"

analyze_request_intent(req, config) ==
  LET request_lower == lower(RequestText(req))
      scores == tool_scores(request_lower)
      best == best_tool(scores)
      best_score == scores[best].score
      confidence == confidence_of(best_score, total_score(scores))
  IN IF DOMAIN scores # {} /\ meets_thresholds(best_score, confidence, config)
     THEN [ intent |-> "specialized_tool",
            selected_tool |-> best,
            confidence |-> confidence,
            tool_scores |-> scores ]
     ELSE IF config.enable_fallback
     THEN [ intent |-> "fallback_to_llm",
            selected_tool |-> "general_llm_tool",
            confidence |-> One,
            tool_scores |-> scores,
            fallback_reason |-> fallback_reason_of(scores) ]
     ELSE [ intent |-> "unclear",
            confidence |-> Zero,
            message |-> "Could not determine the intent of your request and fallback is disabled" ]

(***************************************************************************)
(* What the agents return.  agent.run either raises or returns a string;   *)
(* the router keeps json.loads of it, or {'raw_output': result} when it is *)
(* not JSON (lines 252-255, 361-364).  An outcome is that dict, or Raised. *)
(***************************************************************************)
Raised == [exception |-> "RuntimeError"]

SpecializedResults ==
  { [service |-> "ec2", count |-> 2, resources |-> <<"i-1", "i-2">>],
    [service |-> "ec2", count |-> 0, resources |-> <<>>],
    [raw_output |-> "plain text"],
    [diagnostics |-> <<"port 22 closed">>, recommendations |-> <<"open port 22">>],
    [error |-> "AccessDenied"],
    [success |-> FALSE, message |-> "not found"] }

\* GeneralLLMAgent.process_question (general_llm_agent.py:238-263)
GeneralResults ==
  { [service |-> "general_llm", response |-> "answer"],
    [service |-> "general_llm", error |-> "LLM unavailable", response |-> "canned answer"] }

\* agent.run has been called and has not returned
NoReturn == [pending |-> TRUE]

SpecializedOutcomes == SpecializedResults \cup {Raised}
GeneralOutcomes == GeneralResults \cup {Raised}

(***************************************************************************)
(* The log and its persisted copy (orchestrator_agent.py:75-119).          *)
(***************************************************************************)
LastN(seq, n) == SubSeq(seq, IF Len(seq) <= n THEN 1 ELSE Len(seq) - n + 1, Len(seq))

\* a write of the file (line 94) and a read of it (line 80), done or failed
Saved(write_ok) == [op |-> "save", ok |-> write_ok]

Loaded(read_ok) == [op |-> "load", ok |-> read_ok]

\* the save that keeps the oldest entries instead of the newest
save_feedback_history_KeepOldest(history, file, write_ok) ==
  IF write_ok
  THEN IF Len(history) <= KeepLast THEN history ELSE SubSeq(history, 1, KeepLast)
  ELSE file

\* save_feedback_history: the file's list after the call; a failed write is
\* caught and leaves the file as it was
save_feedback_history(history, file, write_ok) ==
  IF write_ok THEN LastN(history, KeepLast) ELSE file

\* the load that leaves out the newest persisted entry
load_feedback_history_DropNewest(file, read_ok) ==
  IF file = NoFile THEN <<>>
  ELSE IF read_ok THEN (IF file = <<>> THEN <<>> ELSE SubSeq(file, 1, Len(file) - 1))
  ELSE <<>>

\* the load that takes the entries all the same when the read fails
load_feedback_history_KeepingOnFailure(file, read_ok) ==
  IF file = NoFile THEN <<>> ELSE file

\* load_feedback_history: the log after construction
load_feedback_history(file, read_ok) ==
  IF file = NoFile THEN <<>>
  ELSE IF read_ok THEN file
  ELSE <<>>

\* the entry with success stuck at True
RoutingEntry_AlwaysSuccess(req, selected_tool, confidence, is_fallback, success, fallback_reason) ==
  [ request |-> req,
    selected_tool |-> selected_tool,
    confidence |-> confidence,
    is_fallback |-> is_fallback,
    success |-> TRUE,
    fallback_reason |-> fallback_reason ]

RoutingEntry(req, selected_tool, confidence, is_fallback, success, fallback_reason) ==
  [ request |-> req,
    selected_tool |-> selected_tool,
    confidence |-> confidence,
    is_fallback |-> is_fallback,
    success |-> success,
    fallback_reason |-> fallback_reason ]

\* the logging that gives up the entry when the write of the file fails
log_routing_decision_DroppingOnFailure(history, file, config, entry, write_ok) ==
  IF ~config.enable_learning
  THEN [history |-> history, file |-> file, appended |-> <<>>, io |-> <<>>]
  ELSE LET h == Append(history, entry)
           due == Len(h) % SavePeriod = 0
       IN [ history |-> IF due /\ ~write_ok THEN history ELSE h,
            file |-> IF due THEN save_feedback_history(h, file, write_ok) ELSE file,
            appended |-> <<entry>>,
            io |-> IF due THEN <<Saved(write_ok)>> ELSE <<>> ]

\* the logging without the enable_learning test
log_routing_decision_Ungated(history, file, config, entry, write_ok) ==
  LET h == Append(history, entry)
  IN [ history |-> h,
       file |-> IF Len(h) % SavePeriod = 0
                THEN save_feedback_history(h, file, write_ok)
                ELSE file,
       appended |-> <<entry>>,
       io |-> IF Len(h) % SavePeriod = 0 THEN <<Saved(write_ok)>> ELSE <<>> ]

\* the logging that appends and leaves the file to the feedback submissions
log_routing_decision_NeverFlushing(history, file, config, entry, write_ok) ==
  IF ~config.enable_learning
  THEN [history |-> history, file |-> file, appended |-> <<>>, io |-> <<>>]
  ELSE [ history |-> Append(history, entry),
         file |-> file,
         appended |-> <<entry>>,
         io |-> <<>> ]

\* log_routing_decision: the log, the file and the entries appended by the call
log_routing_decision(history, file, config, entry, write_ok) ==
  IF ~config.enable_learning
  THEN [history |-> history, file |-> file, appended |-> <<>>, io |-> <<>>]
  ELSE LET h == Append(history, entry)
       IN [ history |-> h,
            file |-> IF Len(h) % SavePeriod = 0
                     THEN save_feedback_history(h, file, write_ok)
                     ELSE file,
            appended |-> <<entry>>,
            io |-> IF Len(h) % SavePeriod = 0 THEN <<Saved(write_ok)>> ELSE <<>> ]

(***************************************************************************)
(* validate_response_relevance (orchestrator_agent.py:121-160).            *)
(***************************************************************************)
HowMany == <<"h","o","w"," ","m","a","n","y">>

Truthy(d, key, empty) == key \in DOMAIN d /\ d[key] # empty

\* a validator that applies the missing-fields rule before the zero-count rule
validate_response_relevance_LackFirst(req, result, selected_tool, config) ==
  IF ~config.validate_responses
  THEN [is_relevant |-> TRUE, confidence |-> One]
  ELSE IF selected_tool = "aws_resource_tool"
  THEN IF "error" \in DOMAIN result
       THEN [is_relevant |-> FALSE, confidence |-> Zero, reasons |-> <<"Agent returned error">>]
       ELSE IF ~Truthy(result, "service", "") /\ ~Truthy(result, "resources", <<>>)
       THEN [ is_relevant |-> FALSE, confidence |-> Frac(2, 10),
              reasons |-> <<"No service or resources in response">> ]
       ELSE IF /\ "count" \in DOMAIN result
               /\ result.count = 0
               /\ Contains(HowMany, lower(RequestText(req)))
       THEN [is_relevant |-> TRUE, confidence |-> Frac(8, 10), reasons |-> <<>>]
       ELSE [is_relevant |-> TRUE, confidence |-> One, reasons |-> <<>>]
  ELSE IF selected_tool = "network_troubleshoot_tool"
  THEN IF "error" \in DOMAIN result
       THEN [is_relevant |-> FALSE, confidence |-> Zero, reasons |-> <<"Agent returned error">>]
       ELSE IF ~Truthy(result, "diagnostics", <<>>) /\ ~Truthy(result, "recommendations", <<>>)
       THEN [ is_relevant |-> FALSE, confidence |-> Frac(3, 10),
              reasons |-> <<"No diagnostics or recommendations provided">> ]
       ELSE [is_relevant |-> TRUE, confidence |-> One, reasons |-> <<>>]
  ELSE [is_relevant |-> TRUE, confidence |-> One, reasons |-> <<>>]

validate_response_relevance(req, result, selected_tool, config) ==
  IF ~config.validate_responses
  THEN [is_relevant |-> TRUE, confidence |-> One]
  ELSE IF selected_tool = "aws_resource_tool"
  THEN IF "error" \in DOMAIN result
       THEN [is_relevant |-> FALSE, confidence |-> Zero, reasons |-> <<"Agent returned error">>]
       ELSE IF /\ "count" \in DOMAIN result
               /\ result.count = 0
               /\ Contains(HowMany, lower(RequestText(req)))
       THEN [is_relevant |-> TRUE, confidence |-> Frac(8, 10), reasons |-> <<>>]
       ELSE IF ~Truthy(result, "service", "") /\ ~Truthy(result, "resources", <<>>)
       THEN [ is_relevant |-> FALSE, confidence |-> Frac(2, 10),
              reasons |-> <<"No service or resources in response">> ]
       ELSE [is_relevant |-> TRUE, confidence |-> One, reasons |-> <<>>]
  ELSE IF selected_tool = "network_troubleshoot_tool"
  THEN IF "error" \in DOMAIN result
       THEN [is_relevant |-> FALSE, confidence |-> Zero, reasons |-> <<"Agent returned error">>]
       ELSE IF ~Truthy(result, "diagnostics", <<>>) /\ ~Truthy(result, "recommendations", <<>>)
       THEN [ is_relevant |-> FALSE, confidence |-> Frac(3, 10),
              reasons |-> <<"No diagnostics or recommendations provided">> ]
       ELSE [is_relevant |-> TRUE, confidence |-> One, reasons |-> <<>>]
  ELSE [is_relevant |-> TRUE, confidence |-> One, reasons |-> <<>>]

(***************************************************************************)
(* route_request (orchestrator_agent.py:226-348), in the steps between     *)
(* which it waits for an agent: the analysis up to the choice of the agent *)
(* (RouteRequestStart), the first agent.run and everything up to the       *)
(* return or the call of _fallback_to_llm (AgentRun), and _fallback_to_llm *)
(* (FallbackToLLM).  The outer except clause (lines 334-348) is not        *)
(* modelled: nothing outside the inner try raises for a str request.       *)
(***************************************************************************)
\* line 237
is_fallback_intent(intent_analysis) == intent_analysis.intent = "fallback_to_llm"

\* the error check without the test that the agent is not the fallback
returned_error_AnyAgent(is_fallback, config, parsed_result) ==
  /\ config.fallback_for_errors
  /\ \/ "error" \in DOMAIN parsed_result
     \/ ("success" \in DOMAIN parsed_result /\ parsed_result.success = FALSE)

\* the error test made to depend on the enable_fallback switch as well
returned_error_WithFallbackOn(is_fallback, config, parsed_result) ==
  /\ ~is_fallback
  /\ config.fallback_for_errors
  /\ config.enable_fallback
  /\ \/ "error" \in DOMAIN parsed_result
     \/ ("success" \in DOMAIN parsed_result /\ parsed_result.success = FALSE)

\* lines 258-260
returned_error(is_fallback, config, parsed_result) ==
  /\ ~is_fallback
  /\ config.fallback_for_errors
  /\ \/ "error" \in DOMAIN parsed_result
     \/ ("success" \in DOMAIN parsed_result /\ parsed_result.success = FALSE)

\* line 272
validates(is_fallback, config) == ~is_fallback /\ config.validate_responses

\* the irrelevant-response condition without the enable_fallback switch
irrelevant_fallback_IgnoringSwitch(validation_result, config) ==
  ~validation_result.is_relevant

\* line 276
irrelevant_fallback(validation_result, config) ==
  ~validation_result.is_relevant /\ config.enable_fallback

\* lines 320
raised_fallback(is_fallback, config) == ~is_fallback /\ config.fallback_for_errors

\* the context without the agent's error
error_context_NoError(selected_tool, parsed_result) ==
  [ failed_agent |-> selected_tool,
    error |-> "Unknown error",
    original_result |-> parsed_result ]

\* lines 264-268
error_context(selected_tool, parsed_result) ==
  [ failed_agent |-> selected_tool,
    error |-> IF "error" \in DOMAIN parsed_result THEN parsed_result.error ELSE "Unknown error",
    original_result |-> parsed_result ]

\* lines 281-286
irrelevant_context(selected_tool, validation_result, parsed_result) ==
  [ failed_agent |-> selected_tool,
    validation_failure |-> validation_result,
    original_result |-> parsed_result,
    reason |-> "Response not relevant to user question" ]

\* lines 322-325
raised_context(selected_tool, exception) ==
  [failed_agent |-> selected_tool, execution_error |-> exception]

\* lines 292-314
success_response(intent_analysis, parsed_result, validation_result) ==
  LET selected_tool == intent_analysis.selected_tool
      is_fallback == is_fallback_intent(intent_analysis)
      base == [ selected_tool |-> selected_tool,
                confidence |-> intent_analysis.confidence,
                is_fallback |-> is_fallback ]
      validation == IF validation_result # NoDict
                    THEN [response_validation |-> validation_result]
                    ELSE <<>>
      reason == IF is_fallback
                THEN [ fallback_reason |-> intent_analysis.fallback_reason,
                       routing_reason |-> <<"Fallback to general LLM agent">> ]
                ELSE [ routing_reason |->
                         intent_analysis.tool_scores[selected_tool].matched_keywords ]
  IN [ orchestrator_analysis |-> base @@ validation @@ reason,
       tool_result |-> parsed_result,
       success |-> TRUE ]

\* lines 328-332
agent_failed_response(req, selected_tool, exception) ==
  [ error |-> <<"Agent execution failed", selected_tool, exception>>,
    request |-> req,
    success |-> FALSE ]

\* lines 366-377
fallback_response(ctx, parsed_result) ==
  [ orchestrator_analysis |->
      [ selected_tool |-> "general_llm_tool",
        confidence |-> One,
        is_fallback |-> TRUE,
        fallback_reason |-> IF ctx # NoDict THEN "agent_error" ELSE "low_confidence",
        routing_reason |-> <<"Fallback to general LLM agent">>,
        context_provided |-> ctx # NoDict ],
    tool_result |-> parsed_result,
    success |-> TRUE ]

\* lines 381-386
all_failed_response(req, exception) ==
  [ error |-> <<"All agents failed. Last error", exception>>,
    request |-> req,
    success |-> FALSE,
    fallback_attempted |-> TRUE ]

\* a start of the cycle that records the analysis in the log
RouteRequestStart_Recording(req) ==
  LET intent_analysis == analyze_request_intent(req, routing_config)
  IN /\ pc = "idle"
     /\ request' = req
     /\ intent' = intent_analysis
     /\ IF intent_analysis.intent = "unclear"
        THEN /\ response' = intent_analysis
             /\ pc' = "done"
        ELSE /\ response' = response
             /\ pc' = "invoke"
     /\ io' = <<>>
     /\ routing_history' = Append(routing_history, intent_analysis)
     /\ UNCHANGED <<routing_config, feedback_file, context, calls, logged,
                    peer_history, analysis>>

\* a router that learns: a tool the log marks as failed or unhelpful is passed
\* over for the general tool
RouteRequestStart_Learning(req) ==
  LET a == analyze_request_intent(req, routing_config)
      marked == \E i \in DOMAIN routing_history :
                  /\ routing_history[i].selected_tool = a.selected_tool
                  /\ \/ ("success" \in DOMAIN routing_history[i] /\ ~routing_history[i].success)
                     \/ ("was_helpful" \in DOMAIN routing_history[i]
                           /\ ~routing_history[i].was_helpful)
      intent_analysis ==
        IF a.intent = "specialized_tool" /\ marked
        THEN [ intent |-> "fallback_to_llm",
               selected_tool |-> "general_llm_tool",
               confidence |-> One,
               tool_scores |-> a.tool_scores,
               fallback_reason |-> "low_confidence" ]
        ELSE a
  IN /\ pc = "idle"
     /\ request' = req
     /\ intent' = intent_analysis
     /\ IF intent_analysis.intent = "unclear"
        THEN /\ response' = intent_analysis
             /\ pc' = "done"
        ELSE /\ response' = response
             /\ pc' = "invoke"
     /\ io' = <<>>
     /\ UNCHANGED <<routing_config, routing_history, feedback_file, context, calls, logged,
                    peer_history, analysis>>

\* lines 229-246: analyze, return the unclear analysis or pick the agent
RouteRequestStart(req) ==
  LET intent_analysis == analyze_request_intent(req, routing_config)
  IN /\ pc = "idle"
     /\ request' = req
     /\ intent' = intent_analysis
     /\ IF intent_analysis.intent = "unclear"
        THEN /\ response' = intent_analysis
             /\ pc' = "done"
        ELSE /\ response' = response
             /\ pc' = "invoke"
     /\ io' = <<>>
     /\ UNCHANGED <<routing_config, routing_history, feedback_file, context, calls, logged,
                    peer_history, analysis>>

Log(entry, write_ok) ==
  LET r == log_routing_decision(routing_history, feedback_file, routing_config, entry, write_ok)
  IN /\ routing_history' = r.history
     /\ feedback_file' = r.file
     /\ logged' = logged \o r.appended
     /\ io' = io \o r.io

\* lines 248-332: agent.run(request) and what follows its return or exception
AgentRun(outcome, write_ok) ==
  LET selected_tool == intent.selected_tool
      confidence == intent.confidence
      is_fallback == is_fallback_intent(intent)
      validation_result ==
        IF validates(is_fallback, routing_config)
        THEN validate_response_relevance(request, outcome, selected_tool, routing_config)
        ELSE NoDict
  IN /\ pc = "invoke"
     /\ calls' = Append(calls, [ tool |-> selected_tool, input |-> request, context |-> NoDict,
                                outcome |-> outcome ])
     /\ IF outcome = Raised
        THEN /\ UNCHANGED <<routing_history, feedback_file, logged, io>>
             /\ IF raised_fallback(is_fallback, routing_config)
                THEN /\ context' = raised_context(selected_tool, outcome.exception)
                     /\ response' = response
                     /\ pc' = "fallback"
                ELSE /\ context' = context
                     /\ response' = agent_failed_response(request, selected_tool, outcome.exception)
                     /\ pc' = "done"
        ELSE IF returned_error(is_fallback, routing_config, outcome)
        THEN /\ Log(RoutingEntry(request, selected_tool, confidence, FALSE, FALSE, "agent_error"),
                    write_ok)
             /\ context' = error_context(selected_tool, outcome)
             /\ response' = response
             /\ pc' = "fallback"
        ELSE IF validation_result # NoDict /\ irrelevant_fallback(validation_result, routing_config)
        THEN /\ Log(RoutingEntry(request, selected_tool, confidence, FALSE, FALSE,
                                 "irrelevant_response"), write_ok)
             /\ context' = irrelevant_context(selected_tool, validation_result, outcome)
             /\ response' = response
             /\ pc' = "fallback"
        ELSE /\ Log(RoutingEntry(request, selected_tool, confidence, is_fallback, TRUE, None),
                    write_ok)
             /\ context' = context
             /\ response' = success_response(intent, outcome, validation_result)
             /\ pc' = "done"
     /\ UNCHANGED <<routing_config, request, intent, peer_history, analysis>>

\* a fallback that logs the decision again, as a fallback, once it has answered
FallbackToLLM_Relogging(outcome) ==
  /\ pc = "fallback"
  /\ calls' = Append(calls, [ tool |-> "general_llm_tool", input |-> request, context |-> context,
                              outcome |-> outcome ])
  /\ response' = IF outcome = Raised
                 THEN all_failed_response(request, outcome.exception)
                 ELSE fallback_response(context, outcome)
  /\ pc' = "done"
  /\ routing_history' =
       Append(routing_history,
              RoutingEntry(request, "general_llm_tool", One, TRUE, outcome # Raised, "agent_error"))
  /\ logged' =
       Append(logged,
              RoutingEntry(request, "general_llm_tool", One, TRUE, outcome # Raised, "agent_error"))
  /\ UNCHANGED <<routing_config, feedback_file, request, intent, context, io, peer_history,
                 analysis>>

\* _fallback_to_llm (lines 350-386), called with the context AgentRun built
FallbackToLLM(outcome) ==
  /\ pc = "fallback"
  /\ calls' = Append(calls, [ tool |-> "general_llm_tool", input |-> request, context |-> context,
                              outcome |-> outcome ])
  /\ response' = IF outcome = Raised
                 THEN all_failed_response(request, outcome.exception)
                 ELSE fallback_response(context, outcome)
  /\ pc' = "done"
  /\ UNCHANGED <<routing_config, routing_history, feedback_file, request, intent, context,
                 logged, io, peer_history, analysis>>

\* agent.run(request) at line 249, or general_llm_agent.run at line 359, does
\* not return: the call is synchronous and route_request sets no limit on it,
\* so the cycle stays in the call
Blocked ==
  /\ pc \in {"invoke", "fallback"}
  /\ calls' = Append(calls,
                     [ tool |-> IF pc = "invoke" THEN intent.selected_tool ELSE "general_llm_tool",
                       input |-> request,
                       context |-> IF pc = "invoke" THEN NoDict ELSE context,
                       outcome |-> NoReturn ])
  /\ pc' = "blocked"
  /\ UNCHANGED <<routing_config, routing_history, feedback_file, request, intent, context,
                 response, logged, io, peer_history, analysis>>

\* the operation has returned; the caller takes the response
Return ==
  /\ pc \in {"done", "analyzed", "recommended"}
  /\ pc' = "idle"
  /\ request' = <<>>
  /\ intent' = NoDict
  /\ context' = NoDict
  /\ response' = NoDict
  /\ calls' = <<>>
  /\ logged' = <<>>
  /\ io' = <<>>
  /\ UNCHANGED <<routing_config, routing_history, feedback_file, peer_history, analysis>>

(***************************************************************************)
(* provide_user_feedback (orchestrator_agent.py:564-593).                  *)
(***************************************************************************)
FeedbackEntry(req, was_helpful, selected_tool, feedback_text) ==
  [ request |-> req,
    selected_tool |-> selected_tool,
    was_helpful |-> was_helpful,
    feedback_text |-> feedback_text,
    type |-> "user_feedback" ]

ProvideUserFeedback(req, was_helpful, selected_tool, write_ok) ==
  LET h == Append(routing_history, FeedbackEntry(req, was_helpful, selected_tool, None))
  IN /\ pc = "idle"
     /\ routing_history' = h
     /\ feedback_file' = save_feedback_history(h, feedback_file, write_ok)
     /\ io' = <<Saved(write_ok)>>
     /\ UNCHANGED <<routing_config, pc, request, intent, context, response, calls, logged,
                    peer_history, analysis>>

(***************************************************************************)
(* analyze_routing_patterns (orchestrator_agent.py:467-523).               *)
(***************************************************************************)
FracGt(x, y) == x[1] * y[2] > y[1] * x[2]

\* entry['success'] and entry['is_fallback'] (lines 486, 490) raise KeyError
\* on an entry that has no such key
HasDecisionKeys(entry) == {"success", "is_fallback", "selected_tool"} \subseteq DOMAIN entry

\* lines 502: not entry['success'] and entry.get('fallback_reason')
CountsAsFailure(entry) ==
  /\ ~entry.success
  /\ "fallback_reason" \in DOMAIN entry
  /\ entry.fallback_reason # None

analyze_routing_patterns(history) ==
  IF history = <<>>
  THEN [message |-> "No routing history available"]
  ELSE IF \E i \in DOMAIN history : ~HasDecisionKeys(history[i])
  THEN [exception |-> "KeyError"]
  ELSE
    LET n == Len(history)
        successful_requests == Cardinality({i \in DOMAIN history : history[i].success})
        fallback_requests == Cardinality({i \in DOMAIN history : history[i].is_fallback})
        used == {history[i].selected_tool : i \in DOMAIN history}
        failures == {i \in DOMAIN history : CountsAsFailure(history[i])}
        reasons == {history[i].fallback_reason : i \in failures}
        common_failures ==
          [r \in reasons |-> Cardinality({i \in failures : history[i].fallback_reason = r})]
        fallback_rate == Frac(fallback_requests, n)
    IN [ total_requests |-> n,
         success_rate |-> Frac(successful_requests, n),
         fallback_rate |-> fallback_rate,
         agent_usage |->
           [ t \in used |->
               [ count |-> Cardinality({i \in DOMAIN history : history[i].selected_tool = t}),
                 success_count |->
                   Cardinality({i \in DOMAIN history :
                                  history[i].selected_tool = t /\ history[i].success}) ] ],
         common_failures |-> common_failures,
         improvement_suggestions |->
           (IF FracGt(fallback_rate, Frac(3, 10)) THEN <<"High fallback rate">> ELSE <<>>)
           \o (IF "irrelevant_response" \in reasons
               THEN <<"Frequent irrelevant responses">>
               ELSE <<>>) ]

\* an analysis that writes the log to the file, where there is one, once it
\* has gone through it
AnalyzeRoutingPatterns_Flushing ==
  /\ pc = "idle"
  /\ response' = analyze_routing_patterns(routing_history)
  /\ pc' = "analyzed"
  /\ feedback_file' = IF feedback_file = NoFile
                      THEN feedback_file
                      ELSE save_feedback_history(routing_history, feedback_file, TRUE)
  /\ io' = IF feedback_file = NoFile THEN <<>> ELSE <<Saved(TRUE)>>
  /\ UNCHANGED <<routing_config, routing_history, request, intent, context,
                 calls, logged, peer_history, analysis>>

\* a call of analyze_routing_patterns between two requests; it reads the log
\* and changes nothing
AnalyzeRoutingPatterns ==
  /\ pc = "idle"
  /\ response' = analyze_routing_patterns(routing_history)
  /\ pc' = "analyzed"
  /\ io' = <<>>
  /\ UNCHANGED <<routing_config, routing_history, feedback_file, request, intent, context,
                 calls, logged, peer_history, analysis>>

(***************************************************************************)
(* get_routing_recommendations (orchestrator_agent.py:525-562).            *)
(***************************************************************************)
\* set(text.split()): the whitespace-delimited words of the text from
\* position i on, cur being the word read so far
RECURSIVE SplitFrom(_, _, _)
SplitFrom(text, i, cur) ==
  LET word == IF cur = <<>> THEN {} ELSE {cur}
  IN IF i > Len(text) THEN word
     ELSE IF text[i] = " " THEN word \cup SplitFrom(text, i + 1, <<>>)
     ELSE SplitFrom(text, i + 1, Append(cur, text[i]))

\* set(request.lower().split())
words_of(req) == SplitFrom(lower(RequestText(req)), 1, <<>>)

\* a similarity that counts the words of the request instead of the shared ones
similarity_of_OverRequest(request_words, entry) ==
  LET entry_words == words_of(entry.request)
  IN Frac(Cardinality(request_words), Cardinality(request_words \cup entry_words))

\* lines 533: the similarity of an entry that the loop body gets through
similarity_of(request_words, entry) ==
  LET entry_words == words_of(entry.request)
  IN Frac(Cardinality(request_words \cap entry_words),
          Cardinality(request_words \cup entry_words))

\* line 535, with the 0.3 of the code
is_similar(similarity) == FracGt(similarity, Frac(3, 10))

\* what the loop body (lines 532-542) does with one entry of the window: the
\* exception it raises, or None
entry_fault(request_words, entry) ==
  LET entry_words == words_of(entry.request)
  IN IF request_words \cup entry_words = {} THEN "ZeroDivisionError"
     ELSE IF /\ is_similar(similarity_of(request_words, entry))
             /\ ~({"success", "is_fallback"} \subseteq DOMAIN entry)
     THEN "KeyError"
     ELSE None

\* lines 536-542
similar_request(entry, similarity) ==
  [ request |-> entry.request,
    similarity |-> similarity,
    selected_tool |-> entry.selected_tool,
    success |-> entry.success,
    is_fallback |-> entry.is_fallback ]

\* lines 531-542: the matches of the window, in the order of the log
RECURSIVE similar_requests(_, _, _)
similar_requests(request_words, window, i) ==
  IF i > Len(window) THEN <<>>
  ELSE LET similarity == similarity_of(request_words, window[i])
           rest == similar_requests(request_words, window, i + 1)
       IN IF is_similar(similarity)
          THEN <<similar_request(window[i], similarity)>> \o rest
          ELSE rest

\* line 545: list.sort(key=similarity, reverse=True), which is stable
RECURSIVE sort_by_similarity(_)
sort_by_similarity(matches) ==
  IF matches = <<>> THEN <<>>
  ELSE LET best == CHOOSE i \in DOMAIN matches :
                     \A j \in DOMAIN matches :
                       \/ FracGt(matches[i].similarity, matches[j].similarity)
                       \/ (matches[i].similarity = matches[j].similarity /\ i <= j)
           others == [k \in 1..(Len(matches) - 1) |->
                        IF k < best THEN matches[k] ELSE matches[k + 1]]
       IN <<matches[best]>> \o sort_by_similarity(others)

\* lines 555-557: the tools that max(set(successful_tools), key=count) can
\* return; among tools of equal count it is the first in the set's iteration
\* order, which the hash seed of the process decides
most_successful(matches) ==
  LET successful == {i \in DOMAIN matches : matches[i].success}
      count(t) == Cardinality({i \in successful : matches[i].selected_tool = t})
      successful_tools == {matches[i].selected_tool : i \in successful}
  IN {t \in successful_tools : \A u \in successful_tools : count(t) >= count(u)}

\* the results get_routing_recommendations can return on the log, for the
\* word set of line 530
recommendations_on(request_words, history) ==
  LET window == LastN(history, WindowSize)
      faulty == {i \in DOMAIN window : entry_fault(request_words, window[i]) # None}
  IN IF faulty # {}
     THEN LET first == CHOOSE i \in faulty : \A j \in faulty : i <= j
          IN {[exception |-> entry_fault(request_words, window[first])]}
     ELSE LET matches == sort_by_similarity(similar_requests(request_words, window, 1))
              answer(recommendations) ==
                [ similar_requests_found |-> Len(matches),
                  top_similar |-> SubSeq(matches, 1, IF Len(matches) < TopSimilar
                                                     THEN Len(matches) ELSE TopSimilar),
                  recommendations |-> recommendations ]
          IN IF most_successful(matches) = {}
             THEN {answer(<<>>)}
             ELSE {answer(<<t>>) : t \in most_successful(matches)}

\* get_routing_recommendations on a request given by its words
get_routing_recommendations(req, history) == recommendations_on(words_of(req), history)

\* a call of get_routing_recommendations between two requests
GetRoutingRecommendations(req) ==
  /\ pc = "idle"
  /\ request' = req
  /\ response' \in get_routing_recommendations(req, routing_history)
  /\ pc' = "recommended"
  /\ io' = <<>>
  /\ UNCHANGED <<routing_config, routing_history, feedback_file, intent, context,
                 calls, logged, peer_history, analysis>>

(***************************************************************************)
(* A new process: __init__ (orchestrator_agent.py:19-73) builds the router *)
(* again and loads the file.  The configuration is the one the process is  *)
(* run with.                                                               *)
(***************************************************************************)
Restart(read_ok) ==
  /\ pc = "idle"
  /\ routing_history' = load_feedback_history(feedback_file, read_ok)
  /\ io' = IF feedback_file = NoFile THEN <<>> ELSE <<Loaded(read_ok)>>
  /\ UNCHANGED <<routing_config, feedback_file, pc, request, intent, context, response,
                 calls, logged, peer_history, analysis>>

(***************************************************************************)
(* The router serving one request after another.                           *)
(***************************************************************************)
\* the requests served: no keyword, two keywords of the resource tool, two
\* keywords of the network tool
SpecRequests ==
  { <<"life">>, <<"how many", "VPCs">>, <<"HTTPS">> }

SpecConfigs ==
  { [DefaultConfig EXCEPT !.enable_fallback = f, !.fallback_for_errors = e,
                          !.validate_responses = v, !.enable_learning = l] :
      f \in BOOLEAN, e \in BOOLEAN, v \in BOOLEAN, l \in BOOLEAN }

\* the feedback submitted: on a registered tool, and on a name the registry
\* does not hold (selected_tool is whatever the caller passes)
FeedbackInputs ==
  { [was_helpful |-> TRUE, selected_tool |-> "aws_resource_tool"],
    [was_helpful |-> FALSE, selected_tool |-> "unknown_tool"] }

Init ==
  /\ routing_config \in SpecConfigs
  /\ feedback_file = NoFile
  /\ routing_history = load_feedback_history(NoFile, TRUE)
  /\ pc = "idle"
  /\ request = <<>>
  /\ intent = NoDict
  /\ context = NoDict
  /\ response = NoDict
  /\ calls = <<>>
  /\ logged = <<>>
  /\ io = <<>>
  /\ peer_history = <<>>
  /\ analysis = NoDict

RouteRequest ==
  /\ Len(routing_history) < MaxHistory
  /\ \E req \in SpecRequests : RouteRequestStart(req)

Invoke ==
  /\ pc = "invoke"
  /\ \E write_ok \in BOOLEAN :
    \E outcome \in (IF is_fallback_intent(intent) THEN GeneralOutcomes ELSE SpecializedOutcomes) :
      AgentRun(outcome, write_ok)

Escalate == \E outcome \in GeneralOutcomes : FallbackToLLM(outcome)

Feedback ==
  /\ Len(routing_history) < MaxHistory
  /\ \E f \in FeedbackInputs, write_ok \in BOOLEAN :
       ProvideUserFeedback(<<"life">>, f.was_helpful, f.selected_tool, write_ok)

NewProcess == \E read_ok \in BOOLEAN : Restart(read_ok)

Next ==
  \/ RouteRequest
  \/ Invoke
  \/ Escalate
  \/ Blocked
  \/ Return
  \/ Feedback
  \/ AnalyzeRoutingPatterns
  \/ NewProcess

Spec == Init /\ [][Next]_vars

\* the same router, run by an interpreter that executes a call of
\* route_request to its end: a step of the cycle that can be taken is taken
SpecLive ==
  /\ Init
  /\ [][Next]_vars
  /\ WF_vars(Invoke)
  /\ WF_vars(Escalate)
  /\ WF_vars(Return)

(***************************************************************************)
(* Two routers on one file: a second OrchestratorAgent, constructed like   *)
(* the first while the file did not exist, logs decisions and takes        *)
(* feedback with its own routing_history and writes the same               *)
(* orchestrator_feedback.json (feedback_log_file is the fixed relative     *)
(* path of line 71).  Writes succeed in this specification.                *)
(***************************************************************************)
\* a decision the second router logs at the end of a cycle of its own
PeerDecision ==
  RoutingEntry(<<"HTTPS">>, "network_troubleshoot_tool", One, FALSE, TRUE, None)

\* log_routing_decision in the second router
PeerLog ==
  LET r == log_routing_decision(peer_history, feedback_file, routing_config, PeerDecision, TRUE)
  IN /\ Len(peer_history) < MaxHistory
     /\ peer_history' = r.history
     /\ feedback_file' = r.file
     /\ UNCHANGED <<routing_config, routing_history, pc, request, intent, context, response,
                    calls, logged, io, analysis>>

\* provide_user_feedback in the second router
PeerFeedback ==
  LET h == Append(peer_history, FeedbackEntry(<<"life">>, FALSE, "general_llm_tool", None))
  IN /\ Len(peer_history) < MaxHistory
     /\ peer_history' = h
     /\ feedback_file' = save_feedback_history(h, feedback_file, TRUE)
     /\ UNCHANGED <<routing_config, routing_history, pc, request, intent, context, response,
                    calls, logged, io, analysis>>

InitShared == Init /\ routing_config = DefaultConfig

InvokeSaving ==
  /\ pc = "invoke"
  /\ \E outcome \in (IF is_fallback_intent(intent) THEN GeneralOutcomes ELSE SpecializedOutcomes) :
       AgentRun(outcome, TRUE)

FeedbackSaving ==
  /\ Len(routing_history) < MaxHistory
  /\ \E f \in FeedbackInputs : ProvideUserFeedback(<<"life">>, f.was_helpful, f.selected_tool, TRUE)

NextShared ==
  RouteRequest \/ InvokeSaving \/ Escalate \/ Return \/ FeedbackSaving \/ PeerLog \/ PeerFeedback

SpecShared == InitShared /\ [][NextShared]_vars

(***************************************************************************)
(* The similarity search on the logs that routing cycles and feedback      *)
(* submissions leave behind.                                               *)
(***************************************************************************)
\* the empty text, a text that shares no word with the others, a text of
\* three words, and a text of ten words that holds these three
SimilarRequests ==
  { <<>>,
    <<"life">>,
    <<"VPCs", "EC2">>,
    <<"VPCs", "EC2", "DNS">>,
    <<"how many", "VPCs", "EC2", "DNS", "HTTPS", "port", "microservices", "help",
      "unreachable">> }

\* the decision a successful cycle logs for the request (line 289)
DecisionFor(req) ==
  LET intent_analysis == analyze_request_intent(req, DefaultConfig)
  IN RoutingEntry(req, intent_analysis.selected_tool, intent_analysis.confidence,
                  is_fallback_intent(intent_analysis), TRUE, None)

SimilarEntries ==
  {DecisionFor(req) : req \in SimilarRequests}
    \cup {FeedbackEntry(<<"VPCs", "EC2", "DNS">>, TRUE, "aws_resource_tool", None)}

\* the logs of at most one entry more than the window
SimilarHistories == UNION {[1..n -> SimilarEntries] : n \in 0..(WindowSize + 1)}

InitSimilar ==
  /\ routing_config = DefaultConfig
  /\ routing_history \in SimilarHistories
  /\ \/ feedback_file = NoFile
     \/ /\ routing_history # <<>>
        /\ feedback_file = LastN(routing_history, KeepLast)
  /\ pc = "idle"
  /\ request = <<>>
  /\ intent = NoDict
  /\ context = NoDict
  /\ response = NoDict
  /\ calls = <<>>
  /\ logged = <<>>
  /\ io = <<>>
  /\ peer_history = <<>>
  /\ analysis = NoDict

Recommend == \E req \in SimilarRequests : GetRoutingRecommendations(req)

NextSimilar == Recommend \/ AnalyzeRoutingPatterns \/ Return

SpecSimilar == InitSimilar /\ [][NextSimilar]_vars

(***************************************************************************)
(* One routing cycle for every request text of the vocabulary, under the   *)
(* default and other thresholds.                                           *)
(***************************************************************************)
\* every text of at most MaxWords words of the vocabulary
IntentRequests == UNION {[1..n -> Vocabulary] : n \in 0..MaxWords}

IntentConfigs ==
  { [DefaultConfig EXCEPT !.enable_fallback = f,
                          !.min_keyword_matches = m,
                          !.min_confidence_threshold = t] :
      f \in BOOLEAN, m \in {1, 2, 3}, t \in {Frac(1, 2), Frac(3, 4)} }

InitIntent ==
  /\ routing_config \in IntentConfigs
  /\ request \in IntentRequests
  /\ routing_history = <<>>
  /\ feedback_file = NoFile
  /\ pc = "idle"
  /\ intent = NoDict
  /\ context = NoDict
  /\ response = NoDict
  /\ calls = <<>>
  /\ logged = <<>>
  /\ io = <<>>
  /\ peer_history = <<>>
  /\ analysis = NoDict

\* one route_request call, on the request drawn
StartIntent == RouteRequestStart(request)

NextIntent == StartIntent \/ Invoke \/ Escalate

SpecIntent == InitIntent /\ [][NextIntent]_vars

(***************************************************************************)
(* The validator on its own: validate_response_relevance applied to the    *)
(* dict an agent returned, for every tool name, with and without the       *)
(* validate_responses switch.  The call made is kept in calls, the dict    *)
(* the method returns in response.                                         *)
(***************************************************************************)
Optional(key, values) == {<<>>} \cup {key :> v : v \in values}

\* the dicts an agent can return, by the fields the validator looks at
ValidatorResults ==
  { e @@ c @@ s @@ r @@ d @@ m :
      e \in Optional("error", {"boom"}),
      c \in Optional("count", {0, 2}),
      s \in Optional("service", {"", "ec2"}),
      r \in Optional("resources", {<<>>, <<"i-1">>}),
      d \in Optional("diagnostics", {<<>>, <<"dns ok">>}),
      m \in Optional("recommendations", {<<>>, <<"open the port">>}) }

ValidatorRequests == {<<"how many", "VPCs">>, <<"VPCs">>}

InitValidator ==
  /\ routing_config \in {[DefaultConfig EXCEPT !.validate_responses = v] : v \in BOOLEAN}
  /\ request \in ValidatorRequests
  /\ calls \in { <<[tool |-> t, input |-> request, context |-> NoDict, outcome |-> o]>> :
                   t \in ToolNames, o \in ValidatorResults }
  /\ routing_history = <<>>
  /\ feedback_file = NoFile
  /\ pc = "returned"
  /\ intent = NoDict
  /\ context = NoDict
  /\ response = NoDict
  /\ logged = <<>>
  /\ io = <<>>
  /\ peer_history = <<>>
  /\ analysis = NoDict

ValidateResponse ==
  /\ pc = "returned"
  /\ response' = validate_response_relevance(request, calls[1].outcome, calls[1].tool,
                                              routing_config)
  /\ pc' = "validated"
  /\ UNCHANGED <<routing_config, routing_history, feedback_file, request, intent, context,
                 calls, logged, io, peer_history, analysis>>

NextValidator == ValidateResponse

SpecValidator == InitValidator /\ [][NextValidator]_vars

(***************************************************************************)
(* analyze_routing_patterns while another thread of the process serves     *)
(* requests on the same router.  The method takes no lock and no copy of   *)
(* self.routing_history: it reads len() at line 473, walks the list itself *)
(* (a for loop over a list visits the entries appended while it runs), and *)
(* reads len() again at lines 509 and 510.  The steps are the points where *)
(* it reads the list; an append of the other thread can fall between any   *)
(* two of them.                                                            *)
(***************************************************************************)
ReaderLog == 3

\* the decisions the other thread logs
ReaderEntries ==
  { DecisionFor(<<"VPCs", "EC2">>),
    RoutingEntry(<<"life">>, "general_llm_tool", One, TRUE, FALSE, "low_confidence") }

\* lines 469-483
AnalyzeBegin ==
  /\ pc = "idle"
  /\ IF routing_history = <<>>
     THEN /\ response' = [message |-> "No routing history available"]
          /\ pc' = "analyzed"
          /\ UNCHANGED analysis
     ELSE /\ analysis' = [ total_requests |-> Len(routing_history),
                           visited |-> 0,
                           successful_requests |-> 0,
                           fallback_requests |-> 0,
                           agent_usage |-> <<>>,
                           common_failures |-> <<>> ]
          /\ pc' = "analyzing"
          /\ UNCHANGED response
  /\ io' = <<>>
  /\ UNCHANGED <<routing_config, routing_history, feedback_file, request, intent, context,
                 calls, logged, peer_history>>

Count(table, key) == IF key \in DOMAIN table THEN table[key] ELSE 0

Usage(table, tool) ==
  IF tool \in DOMAIN table THEN table[tool] ELSE [count |-> 0, success_count |-> 0]

\* one iteration of the loop of lines 484-506
AnalyzeEntry ==
  /\ pc = "analyzing"
  /\ "success_rate" \notin DOMAIN analysis
  /\ analysis.visited < Len(routing_history)
  /\ LET entry == routing_history[analysis.visited + 1]
     IN IF ~HasDecisionKeys(entry)
        THEN /\ response' = [exception |-> "KeyError"]
             /\ pc' = "analyzed"
             /\ analysis' = NoDict
        ELSE LET tool == entry.selected_tool
                 usage == Usage(analysis.agent_usage, tool)
                 reason == entry.fallback_reason
             IN /\ analysis' =
                     [ analysis EXCEPT
                         !.visited = @ + 1,
                         !.successful_requests = IF entry.success THEN @ + 1 ELSE @,
                         !.fallback_requests = IF entry.is_fallback THEN @ + 1 ELSE @,
                         !.agent_usage =
                            (tool :> [ count |-> usage.count + 1,
                                       success_count |->
                                         IF entry.success
                                         THEN usage.success_count + 1
                                         ELSE usage.success_count ]) @@ @,
                         !.common_failures =
                            IF CountsAsFailure(entry)
                            THEN (reason :> (Count(@, reason) + 1)) @@ @
                            ELSE @ ]
                /\ UNCHANGED <<pc, response>>
  /\ UNCHANGED <<routing_config, routing_history, feedback_file, request, intent, context,
                 calls, logged, io, peer_history>>

\* line 509, once the loop has run off the end of the list
AnalyzeSuccessRate ==
  /\ pc = "analyzing"
  /\ "success_rate" \notin DOMAIN analysis
  /\ analysis.visited = Len(routing_history)
  /\ analysis' = analysis @@
                   [success_rate |-> Frac(analysis.successful_requests, Len(routing_history))]
  /\ UNCHANGED <<routing_config, routing_history, feedback_file, pc, request, intent, context,
                 response, calls, logged, io, peer_history>>

\* lines 510-523
AnalyzeFinish ==
  /\ pc = "analyzing"
  /\ "success_rate" \in DOMAIN analysis
  /\ LET fallback_rate == Frac(analysis.fallback_requests, Len(routing_history))
     IN response' =
          [ total_requests |-> analysis.total_requests,
            success_rate |-> analysis.success_rate,
            fallback_rate |-> fallback_rate,
            agent_usage |-> analysis.agent_usage,
            common_failures |-> analysis.common_failures,
            improvement_suggestions |->
              (IF FracGt(fallback_rate, Frac(3, 10)) THEN <<"High fallback rate">> ELSE <<>>)
              \o (IF "irrelevant_response" \in DOMAIN analysis.common_failures
                  THEN <<"Frequent irrelevant responses">>
                  ELSE <<>>) ]
  /\ pc' = "analyzed"
  /\ analysis' = NoDict
  /\ UNCHANGED <<routing_config, routing_history, feedback_file, request, intent, context,
                 calls, logged, io, peer_history>>

\* log_routing_decision called by the other thread, at the end of its cycle
WriterLogs ==
  \E entry \in ReaderEntries :
    LET r == log_routing_decision(routing_history, feedback_file, routing_config, entry, TRUE)
    IN /\ Len(routing_history) < ReaderLog
       /\ routing_history' = r.history
       /\ feedback_file' = r.file
       /\ UNCHANGED <<routing_config, pc, request, intent, context, response, calls, logged,
                      io, peer_history, analysis>>

InitReader ==
  /\ routing_config = DefaultConfig
  /\ routing_history \in UNION {[1..n -> ReaderEntries] : n \in 0..(ReaderLog - 1)}
  /\ feedback_file = NoFile
  /\ pc = "idle"
  /\ request = <<>>
  /\ intent = NoDict
  /\ context = NoDict
  /\ response = NoDict
  /\ calls = <<>>
  /\ logged = <<>>
  /\ io = <<>>
  /\ peer_history = <<>>
  /\ analysis = NoDict

NextReader ==
  AnalyzeBegin \/ AnalyzeEntry \/ AnalyzeSuccessRate \/ AnalyzeFinish \/ WriterLogs \/ Return

SpecReader == InitReader /\ [][NextReader]_vars

(***************************************************************************)
(* run and process_request (orchestrator_agent.py:440-465, 595-615): the   *)
(* entry point, which answers the two commands itself and hands everything *)
(* else to process_request.                                                *)
(***************************************************************************)
\* str.startswith
StartsWith(s, prefix) == Len(s) >= Len(prefix) /\ SubSeq(s, 1, Len(prefix)) = prefix

\* str.replace(old, ''): every occurrence of old, from the left, is removed
RECURSIVE Replace(_, _)
Replace(s, old) ==
  IF Len(s) < Len(old) THEN s
  ELSE IF StartsWith(s, old) THEN Replace(SubSeq(s, Len(old) + 1, Len(s)), old)
  ELSE <<Head(s)>> \o Replace(Tail(s), old)

\* str.strip()
RECURSIVE Strip(_)
Strip(s) ==
  IF s = <<>> THEN s
  ELSE IF Head(s) = " " THEN Strip(Tail(s))
  ELSE IF s[Len(s)] = " " THEN Strip(SubSeq(s, 1, Len(s) - 1))
  ELSE s

\* line 603: the request cut out of a recommendation command
sub_query(input_data) == Strip(Replace(input_data, CommandChars["routing recommendations for:"]))

\* line 445
meta_keywords ==
  { <<"h","e","l","p">>,
    <<"s","t","a","t","u","s">>,
    <<"a","v","a","i","l","a","b","l","e">>,
    <<"w","h","a","t"," ","c","a","n"," ","y","o","u"," ","d","o">> }

\* lines 446-462, by its keys
system_info_response ==
  [system_info |-> "system_info", usage_examples |-> "usage_examples",
   system_status |-> "system_status"]

\* a run that hands on what the call gave, raised or returned
run_error_Unhandled(result, input_data) == result

\* lines 608-615: what run returns for a call that raised
run_error(result, input_data) ==
  IF "exception" \in DOMAIN result
  THEN [error |-> result.exception, input |-> input_data, success |-> FALSE]
  ELSE result

\* run(input_data)
Run(input_data) ==
  LET text == RequestText(input_data)
  IN /\ pc = "idle"
     /\ IF StartsWith(lower(text), CommandChars["analyze routing"])
        THEN /\ response' = run_error(analyze_routing_patterns(routing_history), input_data)
             /\ request' = input_data
             /\ pc' = "analyzed"
             /\ io' = <<>>
             /\ UNCHANGED <<routing_config, routing_history, feedback_file, intent, context,
                            calls, logged, peer_history, analysis>>
        ELSE IF StartsWith(lower(text), CommandChars["routing recommendations"])
        THEN /\ response' \in
                  { run_error(r, input_data) :
                      r \in recommendations_on(SplitFrom(lower(sub_query(text)), 1, <<>>),
                                               routing_history) }
             /\ request' = input_data
             /\ pc' = "recommended"
             /\ io' = <<>>
             /\ UNCHANGED <<routing_config, routing_history, feedback_file, intent, context,
                            calls, logged, peer_history, analysis>>
        ELSE IF \E keyword \in meta_keywords : Contains(keyword, lower(text))
        THEN /\ response' = system_info_response
             /\ request' = input_data
             /\ pc' = "done"
             /\ io' = <<>>
             /\ UNCHANGED <<routing_config, routing_history, feedback_file, intent, context,
                            calls, logged, peer_history, analysis>>
        ELSE /\ Len(routing_history) < MaxHistory
             /\ RouteRequestStart(input_data)

\* what run is called with: the commands in the forms a caller writes them,
\* and requests that are not commands
RunInputs ==
  { <<"analyze routing">>,
    <<"Analyze Routing", "VPCs">>,
    <<"routing recommendations for:", "VPCs", "EC2", "DNS">>,
    <<"Routing Recommendations for:", "VPCs", "EC2", "DNS">>,
    <<"routing recommendations", "VPCs", "EC2", "DNS">>,
    <<"routing recommendations for:">>,
    <<"how many", "VPCs">>,
    <<"life">>,
    <<"life", "help">> }

RunHistories == UNION {[1..n -> SimilarEntries] : n \in 0..1}

InitRun ==
  /\ routing_config = DefaultConfig
  /\ routing_history \in RunHistories
  /\ feedback_file = NoFile
  /\ pc = "idle"
  /\ request = <<>>
  /\ intent = NoDict
  /\ context = NoDict
  /\ response = NoDict
  /\ calls = <<>>
  /\ logged = <<>>
  /\ io = <<>>
  /\ peer_history = <<>>
  /\ analysis = NoDict

RunCall == \E input_data \in RunInputs : Run(input_data)

NextRun == RunCall \/ Invoke \/ Escalate \/ Return

SpecRun == InitRun /\ [][NextRun]_vars

(***************************************************************************)
(* One router served by one caller, on a file every write of which         *)
(* succeeds: requests, feedback submissions and restarts one after         *)
(* another.  A restart may still fail to read the file.                    *)
(***************************************************************************)
InitSequential == Init /\ routing_config = DefaultConfig

NextSequential ==
  RouteRequest \/ InvokeSaving \/ Escalate \/ Return \/ FeedbackSaving \/ NewProcess

SpecSequential == InitSequential /\ [][NextSequential]_vars

(***************************************************************************)
(* A router constructed on a file that an earlier process left and that    *)
(* cannot be read (lines 75-85): the load fails, the router serves         *)
(* requests and takes feedback.  The entries of the earlier process are    *)
(* on requests this process does not serve.                                *)
(***************************************************************************)
OldEntries ==
  { RoutingEntry(<<"EC2">>, "general_llm_tool", One, TRUE, TRUE, None),
    FeedbackEntry(<<"VPCs">>, TRUE, "aws_resource_tool", None) }

PersistedBefore == { LastN(f, KeepLast) : f \in UNION {[1..n -> OldEntries] : n \in 1..KeepLast} }

InitFailedLoad ==
  /\ routing_config = DefaultConfig
  /\ feedback_file \in PersistedBefore
  /\ routing_history = load_feedback_history(feedback_file, FALSE)
  /\ pc = "idle"
  /\ request = <<>>
  /\ intent = NoDict
  /\ context = NoDict
  /\ response = NoDict
  /\ calls = <<>>
  /\ logged = <<>>
  /\ io = <<Loaded(FALSE)>>
  /\ peer_history = <<>>
  /\ analysis = NoDict

NextFailedLoad == RouteRequest \/ Invoke \/ Escalate \/ Return \/ Feedback

SpecFailedLoad == InitFailedLoad /\ [][NextFailedLoad]_vars

(***************************************************************************)
(* The properties.                                                         *)
(***************************************************************************)
SpecializedNames == {tools[i].name : i \in specialized_tools}

KeywordsOf(name) == tools[CHOOSE i \in DOMAIN tools : tools[i].name = name].keywords

\* the distinct trigger terms of a tool that occur in the lowercased text
TermsIn(name, req) ==
  LET keywords == KeywordsOf(name)
      text == lower(RequestText(req))
  IN {keywords[i] : i \in {j \in DOMAIN keywords : Contains(keywords[j], text)}}

\* their number, for each specialized tool
MatchCounts(req) ==
  [ aws_resource_tool |-> Cardinality(TermsIn("aws_resource_tool", req)),
    network_troubleshoot_tool |-> Cardinality(TermsIn("network_troubleshoot_tool", req)) ]

\* the sum over the specialized tools
Total(counts) == counts["aws_resource_tool"] + counts["network_troubleshoot_tool"]

Succeeded == "success" \in DOMAIN response /\ response.success = TRUE

TaggedFallback ==
  /\ "orchestrator_analysis" \in DOMAIN response
  /\ response.orchestrator_analysis.is_fallback = TRUE

\* C1: with learning enabled, a routing cycle that has ended has appended exactly
\* one RoutingDecision to the store, whatever the path it ended on.
C1_ExactlyOneDecision ==
  (pc = "done" /\ routing_config.enable_learning) => Len(logged) = 1

\* C2: a specialized handler is selected only if its match count reaches
\* min_keyword_matches and its normalized confidence reaches
\* min_confidence_threshold; in every other case the fallback handler is
\* selected with confidence 1.0 when fallback is enabled, and with fallback
\* disabled the cycle has ended Unclear without any handler invoked.
C2_SelectionGate ==
  /\ (pc # "idle" /\ intent.intent = "unclear") =>
       /\ ~routing_config.enable_fallback
       /\ "selected_tool" \notin DOMAIN intent
       /\ pc = "done"
       /\ calls = <<>>
       /\ response = intent
  \* the selection is judged where it has just been made: before any call
  /\ (pc \in {"invoke", "done"} /\ calls = <<>>) =>
       LET count == MatchCounts(request)
       IN IF intent.intent = "specialized_tool"
          THEN /\ intent.selected_tool \in SpecializedNames
               /\ count[intent.selected_tool] >= routing_config.min_keyword_matches
               /\ intent.confidence = Frac(count[intent.selected_tool], Total(count))
               /\ FracGeq(intent.confidence, routing_config.min_confidence_threshold)
          ELSE /\ \A n \in SpecializedNames :
                    ~ /\ count[n] >= routing_config.min_keyword_matches
                      /\ FracGeq(Frac(count[n], Total(count)),
                                 routing_config.min_confidence_threshold)
               /\ IF routing_config.enable_fallback
                  THEN /\ intent.intent = "fallback_to_llm"
                       /\ intent.selected_tool = "general_llm_tool"
                       /\ intent.confidence = One
                  ELSE intent.intent = "unclear"

\* C2 witness: a request whose top handler has matches but misses a gate, with
\* fallback disabled, has ended Unclear
C2_Witness ==
  /\ pc = "done"
  /\ intent.intent = "unclear"
  /\ Total(MatchCounts(request)) > 0

FallbackCalls == {i \in DOMAIN calls : calls[i].tool = "general_llm_tool"}

EscalationCalls == {i \in DOMAIN calls : calls[i].context # NoDict}

\* C3: in a routing cycle at most two handlers are invoked and at most one
\* invocation is an escalation; an escalation is the second call and follows a
\* specialized handler; an invocation of the fallback handler is the last one
\* of its cycle, so its output is never escalated or retried.
C3_AtMostOneEscalation ==
  /\ Len(calls) <= 2
  /\ Cardinality(EscalationCalls) <= 1
  /\ \A i \in EscalationCalls :
       i = 2 /\ calls[i].tool = "general_llm_tool" /\ calls[1].tool \in SpecializedNames
  /\ \A i \in FallbackCalls : i = Len(calls)
  /\ FallbackCalls # {} => pc \in {"done", "blocked"}

\* C3 witness: the escalation's fallback handler failed and the cycle ended
C3_Witness ==
  /\ pc = "done"
  /\ Len(calls) = 2
  /\ calls[2].outcome = Raised

\* the first call went to a specialized handler, which returned the result o
SpecializedReturned ==
  /\ calls # <<>>
  /\ calls[1].tool \in SpecializedNames
  /\ calls[1].outcome # Raised

ErrorResultCycle ==
  /\ SpecializedReturned
  /\ "error" \in DOMAIN calls[1].outcome
  /\ routing_config.fallback_for_errors

EscalatedWithError ==
  /\ Len(calls) = 2
  /\ calls[2].tool = "general_llm_tool"
  /\ calls[2].context # NoDict
  /\ calls[2].context.failed_agent = calls[1].tool
  /\ calls[2].context.error = calls[1].outcome.error

LoggedWithReason(reason) ==
  /\ \A i \in DOMAIN logged : logged[i].fallback_reason = reason
  /\ routing_config.enable_learning => Len(logged) = 1

IrrelevantResultCycle ==
  /\ SpecializedReturned
  /\ "error" \notin DOMAIN calls[1].outcome
  /\ ~("success" \in DOMAIN calls[1].outcome /\ calls[1].outcome.success = FALSE)
  /\ routing_config.validate_responses
  /\ ~validate_response_relevance(request, calls[1].outcome, calls[1].tool,
                                  routing_config).is_relevant

ValidationDetail ==
  validate_response_relevance(request, calls[1].outcome, calls[1].tool, routing_config)

\* C5: when a specialized handler returned without error and the validator
\* reports the result as not relevant, then with fallback enabled the cycle
\* escalates to the fallback handler with the validation detail in the context
\* and the decision is logged with irrelevant_response; with fallback disabled
\* the cycle succeeds with the specialized handler's result and the fallback
\* handler is not invoked.
C5_IrrelevantEscalates ==
  (pc \in {"fallback", "done"} /\ IrrelevantResultCycle) =>
    IF routing_config.enable_fallback
    THEN /\ LoggedWithReason("irrelevant_response")
         /\ pc = "fallback" =>
              /\ Len(calls) = 1
              /\ context.failed_agent = calls[1].tool
              /\ context.validation_failure = ValidationDetail
         /\ pc = "done" =>
              /\ Len(calls) = 2
              /\ calls[2].tool = "general_llm_tool"
              /\ calls[2].context # NoDict
              /\ calls[2].context.failed_agent = calls[1].tool
              /\ calls[2].context.validation_failure = ValidationDetail
    ELSE /\ pc = "done"
         /\ Len(calls) = 1
         /\ Succeeded
         /\ response.tool_result = calls[1].outcome
         /\ response.orchestrator_analysis.selected_tool = calls[1].tool
         /\ ~TaggedFallback

\* C5 witness: an irrelevant result was escalated and the fallback handler ran
C5_Witness ==
  /\ pc = "done"
  /\ IrrelevantResultCycle
  /\ routing_config.enable_fallback
  /\ Len(calls) = 2
  /\ logged # <<>>

\* C6: the store never holds more than the retention bound, in memory or in
\* the persisted record.
C6_StoreBounded ==
  /\ Len(routing_history) <= KeepLast
  /\ feedback_file # NoFile => Len(feedback_file) <= KeepLast

DefaultThresholds ==
  /\ routing_config.min_keyword_matches = DefaultConfig.min_keyword_matches
  /\ routing_config.min_confidence_threshold = DefaultConfig.min_confidence_threshold

JustSelected == pc \in {"invoke", "done"} /\ calls = <<>>

\* C7: with fallback enabled, a request that matches no trigger term of any
\* specialized handler selects the fallback handler with confidence 1.0 and
\* the reason no_keywords_matched, and the reason low_confidence is given only
\* when some trigger term matched.
C7_NoKeywordsReason ==
  (JustSelected /\ routing_config.enable_fallback) =>
    LET count == MatchCounts(request)
    IN /\ Total(count) = 0 =>
            /\ intent.intent = "fallback_to_llm"
            /\ intent.selected_tool = "general_llm_tool"
            /\ intent.confidence = One
            /\ intent.fallback_reason = "no_keywords_matched"
       /\ (intent.intent = "fallback_to_llm" /\ intent.fallback_reason = "low_confidence") =>
            Total(count) > 0

\* C8: under the default thresholds, a request that contains at least two
\* distinct trigger terms of one specialized handler and none of any other
\* selects that handler with confidence 1.0 and is_fallback = false, its score
\* being the number of distinct terms however often each occurs.
C8_TwoTermsSelect ==
  (JustSelected /\ DefaultThresholds) =>
    LET count == MatchCounts(request)
    IN \A n \in SpecializedNames :
         (count[n] >= 2 /\ \A m \in SpecializedNames \ {n} : count[m] = 0) =>
           /\ pc = "invoke"
           /\ intent.intent = "specialized_tool"
           /\ intent.selected_tool = n
           /\ intent.confidence = One
           /\ ~is_fallback_intent(intent)
           /\ intent.tool_scores[n].score = count[n]

\* C8 witness: two terms of the network handler, each occurring twice
C8_Witness ==
  /\ pc = "invoke"
  /\ DefaultThresholds
  /\ request = <<"HTTPS", "HTTPS">>
  /\ intent.selected_tool = "network_troubleshoot_tool"
  /\ intent.tool_scores["network_troubleshoot_tool"].score = 2

\* C9 as stated: the decision logged for a cycle has success = true exactly
\* when the cycle ended successfully, escalated or not.
C9_SuccessMatchesOutcome ==
  pc = "done" => \A i \in DOMAIN logged : logged[i].success = Succeeded

\* C9 amended: the decision logged for a cycle has success = true exactly when
\* the cycle ended successfully without an escalation; a cycle that escalated
\* has logged success = false, whatever the fallback handler then did.
C9_SuccessMatchesFirstHandler ==
  /\ pc = "fallback" => \A i \in DOMAIN logged : logged[i].success = FALSE
  /\ pc = "done" =>
       \A i \in DOMAIN logged : logged[i].success = (Succeeded /\ Len(calls) = 1)

\* C9 witness: an escalated cycle ended successfully with its decision logged
C9_Witness ==
  /\ pc = "done"
  /\ Len(calls) = 2
  /\ Succeeded
  /\ logged # <<>>

\* the cycle ended Unclear, or on a handler that raised or returned an error
\* field and was not escalated
TerminalFailure ==
  /\ pc = "done"
  /\ \/ intent.intent = "unclear"
     \/ /\ calls # <<>>
        /\ \/ calls[Len(calls)].outcome = Raised
           \/ "error" \in DOMAIN calls[Len(calls)].outcome

\* C10: a cycle that ended in a terminal failure returned success = false and
\* an error message.
C10_FailuresReported ==
  TerminalFailure =>
    /\ "success" \in DOMAIN response
    /\ response.success = FALSE
    /\ "error" \in DOMAIN response \/ "message" \in DOMAIN response

\* the cycle escalated: its second call went through _fallback_to_llm
Escalated == Len(calls) = 2 /\ calls[2].context # NoDict

\* the escalation's fallback handler failed, by raising or by an error field
FallbackFailed ==
  /\ pc = "done"
  /\ Escalated
  /\ \/ calls[2].outcome = Raised
     \/ "error" \in DOMAIN calls[2].outcome

\* the text of the fault that triggered the escalation, as the context holds it
OriginalFaultText ==
  LET ctx == calls[2].context
  IN IF "error" \in DOMAIN ctx THEN ctx.error
     ELSE IF "execution_error" \in DOMAIN ctx THEN ctx.execution_error
     ELSE ctx.reason

FallbackFaultText ==
  IF calls[2].outcome = Raised THEN calls[2].outcome.exception ELSE calls[2].outcome.error

\* the parts of the response's error message
ResponseErrors == IF "error" \in DOMAIN response THEN response.error ELSE <<>>

\* C11: when the fallback handler of an escalation failed, the cycle returns
\* success = false and a result that holds both the original fault and the
\* fallback handler's fault.
C11_BothErrorsPreserved ==
  FallbackFailed =>
    /\ response.success = FALSE
    /\ \E i, j \in DOMAIN ResponseErrors :
         /\ i # j
         /\ ResponseErrors[i] = OriginalFaultText
         /\ ResponseErrors[j] = FallbackFaultText

\* the first call went to a specialized handler, which raised, with
\* fallback_for_errors on
RaisedCycle ==
  /\ calls # <<>>
  /\ calls[1].tool \in SpecializedNames
  /\ calls[1].outcome = Raised
  /\ routing_config.fallback_for_errors

\* the context names the failed handler and holds its error, under either key
HoldsFault(ctx, tool, text) ==
  /\ ctx # NoDict
  /\ ctx.failed_agent = tool
  /\ \/ ("error" \in DOMAIN ctx /\ ctx.error = text)
     \/ ("execution_error" \in DOMAIN ctx /\ ctx.execution_error = text)

\* C12: a specialized handler that raised is handled as one that returned an
\* error field: with fallback_for_errors on the cycle escalates with the failed
\* handler's id and the error in the context, and the decision is logged with
\* agent_error.
C12_RaiseEscalatesLikeError ==
  (pc \in {"fallback", "done"} /\ RaisedCycle) =>
    /\ pc = "fallback" => HoldsFault(context, calls[1].tool, calls[1].outcome.exception)
    /\ pc = "done" =>
         /\ Len(calls) = 2
         /\ calls[2].tool = "general_llm_tool"
         /\ HoldsFault(calls[2].context, calls[1].tool, calls[1].outcome.exception)
    /\ LoggedWithReason("agent_error")

\* the reason that triggered the escalation
TriggerReason ==
  IF "validation_failure" \in DOMAIN calls[2].context
  THEN "irrelevant_response"
  ELSE "agent_error"

\* C13: every response of an escalation is tagged is_fallback = true and
\* carries the reason that triggered it: agent_error after a handler error,
\* irrelevant_response after a validation rejection.
C13_FallbackTagged ==
  (pc = "done" /\ Escalated) =>
    /\ TaggedFallback
    /\ response.orchestrator_analysis.fallback_reason = TriggerReason

\* C14: every routing cycle ends: a handler call that does not return is
\* aborted and the cycle goes on as for a handler error, so a cycle that has
\* called a handler always comes to its return.
C14_CycleTerminates == (pc \in {"invoke", "fallback"}) ~> (pc = "done")

\* the appends made to the store by the two routers that share the file
StoreAppends == Len(routing_history) + Len(peer_history)

\* C15: appends to the shared store are serialized.  With every write
\* succeeding, a flush is due at each SavePeriod-th append and at each feedback
\* submission, so once the store has taken SavePeriod appends the persisted
\* record exists; it holds at most KeepLast entries, each of them an entry
\* that was appended, the last persisted one being the last appended when the
\* number of appends is a multiple of SavePeriod.
C15_AppendsSerialized ==
  /\ StoreAppends >= SavePeriod => feedback_file # NoFile
  /\ feedback_file # NoFile =>
       /\ Len(feedback_file) <= KeepLast
       /\ \A i \in DOMAIN feedback_file :
            \/ \E j \in DOMAIN routing_history : routing_history[j] = feedback_file[i]
            \/ \E j \in DOMAIN peer_history : peer_history[j] = feedback_file[i]

Last(seq) == seq[Len(seq)]

\* a step of provide_user_feedback: the one operation that leaves the router
\* idle with a write of the file behind it
FeedbackStep ==
  /\ pc = "idle"
  /\ pc' = "idle"
  /\ io' # <<>>
  /\ io'[1].op = "save"

\* the step appended exactly one entry, a UserFeedbackEntry, at the end
AppendedFeedback ==
  /\ Len(routing_history') = Len(routing_history) + 1
  /\ SubSeq(routing_history', 1, Len(routing_history)) = routing_history
  /\ "type" \in DOMAIN Last(routing_history')
  /\ Last(routing_history').type = "user_feedback"
  /\ Last(routing_history').was_helpful \in BOOLEAN
  /\ "feedback_text" \in DOMAIN Last(routing_history')

RECURSIVE SumCounts(_, _)
SumCounts(usage, names) ==
  IF names = {} THEN 0
  ELSE LET t == CHOOSE x \in names : TRUE
       IN usage[t].count + SumCounts(usage, names \ {t})

\* C17: on every log that routing cycles and feedback submissions can build,
\* analyze_routing_patterns returns the aggregates over the whole log without
\* error, the per-handler usage counts adding up to the total; so too when a
\* UserFeedbackEntry is in the log.
C17_AnalysisSucceeds ==
  (pc = "analyzed" /\ routing_history # <<>>) =>
    /\ "exception" \notin DOMAIN response
    /\ response.total_requests = Len(routing_history)
    /\ {"success_rate", "fallback_rate", "agent_usage", "common_failures"}
         \subseteq DOMAIN response
    /\ SumCounts(response.agent_usage, DOMAIN response.agent_usage) = response.total_requests

\* a step that starts a new process on an existing file
RestartStep ==
  /\ pc = "idle"
  /\ pc' = "idle"
  /\ io' # <<>>
  /\ io'[1].op = "load"

\* the log has been flushed: the file holds its most recent KeepLast entries
Flushed == feedback_file # NoFile /\ feedback_file = LastN(routing_history, KeepLast)

Evolves(old, new) ==
  \E k \in 0..Len(old) :
    /\ Len(new) >= Len(old) - k
    /\ SubSeq(new, 1, Len(old) - k) = SubSeq(old, k + 1, Len(old))
    /\ k > 0 => Len(new) = KeepLast

\* C19: the store is append-only with eviction of the oldest: in every step
\* the log, in memory and persisted, keeps its entries in place and in order
\* and only gains entries at the end, except for the entries that the
\* retention bound drops from the oldest end.
C19_AppendOnly ==
  [][/\ Evolves(routing_history, routing_history')
     /\ feedback_file # NoFile =>
          /\ feedback_file' # NoFile
          /\ Evolves(feedback_file, feedback_file')]_vars

\* the entries the search scans: the most recent WindowSize of the log
Window == LastN(routing_history, WindowSize)

\* Jaccard similarity of the word sets of the request and of an entry's text
Jaccard(entry) ==
  LET a == words_of(request)
      b == words_of(entry.request)
  IN Frac(Cardinality(a \cap b), Cardinality(a \cup b))

\* the entries of the window at or above the threshold of 0.3
AtOrAbove ==
  {i \in DOMAIN Window :
     /\ words_of(request) \cup words_of(Window[i].request) # {}
     /\ FracGeq(Jaccard(Window[i]), Frac(3, 10))}

\* C20: the search returns every entry of the most recent WindowSize entries
\* whose Jaccard similarity to the request is at or above 0.3, one of exactly
\* 0.3 included, and no other entry.
C20_SimilarAtOrAbove ==
  pc = "recommended" =>
    /\ "exception" \notin DOMAIN response
    /\ Len(response.top_similar) = Cardinality(AtOrAbove)
    /\ \A i \in AtOrAbove :
         \E j \in DOMAIN response.top_similar :
           /\ response.top_similar[j].request = Window[i].request
           /\ response.top_similar[j].similarity = Jaccard(Window[i])
    /\ \A j \in DOMAIN response.top_similar :
         \E i \in AtOrAbove : response.top_similar[j].request = Window[i].request

\* the result the validator was given, and the tool it was given it for
Validated == calls[1].outcome

ValidatedTool == calls[1].tool

ErrorMarked == "error" \in DOMAIN Validated

\* a quantity-style request answered with a count of zero
ZeroCountQuantity ==
  /\ "count" \in DOMAIN Validated
  /\ Validated.count = 0
  /\ Contains(HowMany, lower(RequestText(request)))

\* the result has the field and the field is not empty
Has(key, empty) == key \in DOMAIN Validated /\ Validated[key] # empty

Verdict(relevant, conf) ==
  /\ response.is_relevant = relevant
  /\ response.confidence = conf

\* C21: for a result without an error marker the validator follows the rule
\* table: for the resource tool a zero count on a "how many" request is
\* relevant at 0.8, otherwise a result with neither a service nor a non-empty
\* resource list is irrelevant at 0.2; for the diagnostics tool a result with
\* neither diagnostics nor recommendations is irrelevant at 0.3; every other
\* case is relevant at 1.0; and with validation disabled every result is
\* relevant at 1.0.
C21_ValidationRules ==
  (pc = "validated" /\ ~ErrorMarked) =>
    IF ~routing_config.validate_responses THEN Verdict(TRUE, One)
    ELSE
      /\ (ValidatedTool = "aws_resource_tool" /\ ZeroCountQuantity)
           => Verdict(TRUE, Frac(8, 10))
      /\ (/\ ValidatedTool = "aws_resource_tool"
          /\ ~ZeroCountQuantity
          /\ ~Has("service", "")
          /\ ~Has("resources", <<>>))
           => Verdict(FALSE, Frac(2, 10))
      /\ (/\ ValidatedTool = "aws_resource_tool"
          /\ ~ZeroCountQuantity
          /\ (Has("service", "") \/ Has("resources", <<>>)))
           => Verdict(TRUE, One)
      /\ (/\ ValidatedTool = "network_troubleshoot_tool"
          /\ ~Has("diagnostics", <<>>)
          /\ ~Has("recommendations", <<>>))
           => Verdict(FALSE, Frac(3, 10))
      /\ (/\ ValidatedTool = "network_troubleshoot_tool"
          /\ (Has("diagnostics", <<>>) \/ Has("recommendations", <<>>)))
           => Verdict(TRUE, One)
      /\ ValidatedTool \notin {"aws_resource_tool", "network_troubleshoot_tool"}
           => Verdict(TRUE, One)

\* a zero count on a "how many" request, with no service and no resources,
\* was found relevant at 0.8
C21_Witness ==
  /\ pc = "validated"
  /\ routing_config.validate_responses
  /\ ValidatedTool = "aws_resource_tool"
  /\ ~ErrorMarked
  /\ ZeroCountQuantity
  /\ ~Has("service", "")
  /\ ~Has("resources", <<>>)
  /\ Verdict(TRUE, Frac(8, 10))

\* C22: a result that carries an error marker is found irrelevant with
\* confidence 0.0, whichever tool it is validated for.
C22_ErrorIsIrrelevant ==
  (pc = "validated" /\ routing_config.validate_responses /\ ErrorMarked) =>
    Verdict(FALSE, Zero)

\* the log as it stood when it had n entries
LogAt(n) == SubSeq(routing_history, 1, n)

\* C23: an analysis that overlaps with appends reports on a consistent
\* snapshot: its total, its rates and its per-tool counts are those of the
\* log as it stood at one instant.
C23_ConsistentSnapshot ==
  pc = "analyzed" =>
    \E n \in 0..Len(routing_history) : response = analyze_routing_patterns(LogAt(n))

\* a step in which analyze_routing_patterns or get_routing_recommendations ran
ReadStep == pc = "idle" /\ pc' \in {"analyzed", "recommended"}

\* C24: the analysis and the similarity search are read-only: a call of
\* either leaves the in-memory log, the persisted log and the routing
\* configuration as they were, and writes nothing to the file.
C24_ReadsChangeNothing ==
  [][ReadStep =>
       /\ routing_history' = routing_history
       /\ feedback_file' = feedback_file
       /\ routing_config' = routing_config
       /\ io' = <<>>]_vars

\* an analysis has reported on a log that has a persisted copy
C24_Witness ==
  /\ pc = "analyzed"
  /\ "total_requests" \in DOMAIN response
  /\ routing_history # <<>>
  /\ feedback_file # NoFile

\* the input of run begins with the analysis keyword, in some letter case
AnalysisCommand ==
  request # <<>> /\ Head(request) \in {"analyze routing", "Analyze Routing"}

\* the input of run begins with the recommendation keyword, in some letter case
RecommendationCommand ==
  /\ request # <<>>
  /\ Head(request) \in {"routing recommendations", "routing recommendations for:",
                        "Routing Recommendations for:"}

\* the cycle neither classified the request, nor ran an agent, nor logged
Bypassed ==
  /\ intent = NoDict
  /\ calls = <<>>
  /\ logged = <<>>
  /\ io = <<>>

\* C25: a request that begins with the analysis keyword is answered by the
\* analysis of the log, a request that begins with the recommendation keyword
\* by the similarity search on the rest of the request after the keyword
\* prefix, and neither is classified, handed to an agent or logged.
C25_CommandsBypassRouting ==
  /\ AnalysisCommand =>
       /\ pc = "analyzed"
       /\ response = run_error(analyze_routing_patterns(routing_history), request)
       /\ Bypassed
  /\ RecommendationCommand =>
       /\ pc = "recommended"
       /\ response \in { run_error(r, request) :
                           r \in get_routing_recommendations(Tail(request), routing_history) }
       /\ Bypassed

\* the operation made a write of the file that failed, or a read that failed
FailedSave == \E k \in DOMAIN io : io[k].op = "save" /\ ~io[k].ok

FailedLoad == \E k \in DOMAIN io : io[k].op = "load" /\ ~io[k].ok

\* what route_request returns for the agent calls that were made, going by
\* the outcomes of the calls alone
Replayed ==
  LET first == calls[1].outcome
      is_fallback == is_fallback_intent(intent)
      validation_result ==
        IF first # Raised /\ validates(is_fallback, routing_config)
        THEN validate_response_relevance(request, first, intent.selected_tool, routing_config)
        ELSE NoDict
  IN IF Len(calls) = 2
     THEN IF calls[2].outcome = Raised
          THEN all_failed_response(request, calls[2].outcome.exception)
          ELSE fallback_response(context, calls[2].outcome)
     ELSE IF first = Raised
     THEN agent_failed_response(request, intent.selected_tool, first.exception)
     ELSE success_response(intent, first, validation_result)

\* C26: a failed write of the file during a flush, or a failed read of it at
\* startup, is not fatal: the operation goes on as it would have, the tool
\* selected and the response returned for the request are those the agent
\* outcomes call for, the in-memory log keeps the entry that was being
\* appended, and the router is ready for the next request.
C26_StoreFailureNonFatal ==
  [][/\ (FailedSave' /\ pc = "invoke") =>
          /\ pc' \in {"done", "fallback"}
          /\ intent' = intent
          /\ logged' # <<>>
          /\ routing_history' = Append(routing_history, logged'[Len(logged')])
          /\ feedback_file' = feedback_file
     /\ (FailedSave' /\ pc' = "done") =>
          /\ calls' # <<>>
          /\ calls'[1].tool = intent'.selected_tool
          /\ response' = Replayed'
     /\ (FailedSave' /\ pc = "idle") =>
          /\ pc' = "idle"
          /\ Len(routing_history') = Len(routing_history) + 1
          /\ SubSeq(routing_history', 1, Len(routing_history)) = routing_history
          /\ "was_helpful" \in DOMAIN routing_history'[Len(routing_history')]
          /\ feedback_file' = feedback_file
     /\ FailedLoad' =>
          /\ pc' = "idle"
          /\ routing_history' = <<>>
          /\ feedback_file' = feedback_file
          /\ routing_config' = routing_config]_vars

\* a cycle whose flush failed has escalated and returned the fallback's
\* answer, with the entry in the in-memory log
C26_Witness ==
  /\ pc = "done"
  /\ FailedSave
  /\ Len(calls) = 2
  /\ calls[2].outcome # Raised
  /\ logged # <<>>
  /\ routing_history # <<>>
  /\ routing_history[Len(routing_history)] = logged[1]

\* the specialized tools whose match count is the highest, by their place in
\* the registry
TopPlaces(counts) ==
  {i \in specialized_tools :
     \A j \in specialized_tools : counts[tools[j].name] <= counts[tools[i].name]}

\* C27: when several specialized tools share the highest match count, the one
\* declared first in the registry is selected, so that the tool selected is a
\* function of the match counts.
C27_TieFirstDeclared ==
  (JustSelected /\ intent.intent = "specialized_tool") =>
    LET top == TopPlaces(MatchCounts(request))
    IN /\ \E i \in top : intent.selected_tool = tools[i].name
       /\ \A i \in top : intent.selected_tool = tools[i].name => \A j \in top : i <= j

\* both specialized tools matched the same number of terms and the first of
\* the registry was selected
C27_Witness ==
  /\ JustSelected
  /\ intent.intent = "specialized_tool"
  /\ MatchCounts(request)["aws_resource_tool"] > 0
  /\ MatchCounts(request)["aws_resource_tool"] = MatchCounts(request)["network_troubleshoot_tool"]
  /\ intent.selected_tool = "aws_resource_tool"

\* a step in which analyze_request_intent ran
ClassifyStep == pc = "idle" /\ pc' \in {"invoke", "done"} /\ intent' # NoDict

\* C28: classification is a pure function of the request text, the registry
\* and the configuration: whenever a request is classified, the scores, the
\* matched terms, the confidence and the selection are those that the text and
\* the configuration determine, whatever was classified or logged before, and
\* the step changes neither the store nor the configuration.
C28_ClassificationPure ==
  [][ClassifyStep =>
       /\ intent' = analyze_request_intent(request', routing_config)
       /\ \A n \in (IF "tool_scores" \in DOMAIN intent' THEN SpecializedNames ELSE {}) :
            /\ intent'.tool_scores[n].score = MatchCounts(request')[n]
            /\ {intent'.tool_scores[n].matched_keywords[k] :
                  k \in DOMAIN intent'.tool_scores[n].matched_keywords}
                 = TermsIn(n, request')
       /\ routing_history' = routing_history
       /\ feedback_file' = feedback_file
       /\ routing_config' = routing_config
       /\ io' = <<>>]_vars

\* a request is classified for the second time, after its first cycle was
\* logged, and the selection is the one made the first time
C28_Witness ==
  /\ pc = "invoke"
  /\ calls = <<>>
  /\ \E i \in DOMAIN routing_history :
       /\ HasDecisionKeys(routing_history[i])
       /\ routing_history[i].request = request
       /\ routing_history[i].selected_tool = intent.selected_tool

\* the search the other way round: the logged request as the query, on a log
\* that holds the decision for the query
Reverse == get_routing_recommendations(routing_history[1].request, <<DecisionFor(request)>>)

\* the searches that ran on a log of one routing decision
SearchedOne ==
  /\ pc = "recommended"
  /\ Len(routing_history) = 1
  /\ HasDecisionKeys(routing_history[1])

\* C29: the similarity is symmetric: the similarity found for a query A
\* against a logged B is the one found for the query B against a logged A, so
\* that B is returned for A exactly when A is returned for B.
C29_SimilaritySymmetric ==
  SearchedOne =>
    \A reverse \in Reverse :
      IF "exception" \in DOMAIN response \/ "exception" \in DOMAIN reverse
      THEN reverse = response
      ELSE /\ Len(response.top_similar) = Len(reverse.top_similar)
           /\ response.top_similar # <<>> =>
                /\ response.top_similar[1].request = routing_history[1].request
                /\ reverse.top_similar[1].request = request
                /\ response.top_similar[1].similarity = reverse.top_similar[1].similarity

\* a logged request was returned for a query that differs from it, at a
\* similarity below 1
C29_Witness ==
  /\ SearchedOne
  /\ "exception" \notin DOMAIN response
  /\ response.top_similar # <<>>
  /\ routing_history[1].request # request
  /\ response.top_similar[1].similarity = Frac(2, 3)

\* C30: every entry of the log names a tool that the registry holds, the
\* decisions logged by the router and the entries appended by
\* provide_user_feedback alike.
C30_EntriesNameRegisteredTools ==
  \A i \in DOMAIN routing_history : routing_history[i].selected_tool \in ToolNames

\* the cycle in which the fallback was chosen at the selection gate has logged
GateFallbackLogged ==
  /\ pc = "done"
  /\ intent # NoDict
  /\ intent.intent = "fallback_to_llm"
  /\ logged # <<>>

\* C31: the decision logged for a cycle in which the fallback was chosen at
\* the selection gate has is_fallback true, confidence 1.0 and, as its
\* fallback_reason, the reason computed at selection, never an empty one.
C31_GateFallbackReasonLogged ==
  GateFallbackLogged =>
    /\ logged[1].selected_tool = "general_llm_tool"
    /\ logged[1].is_fallback = TRUE
    /\ logged[1].confidence = One
    /\ logged[1].fallback_reason = intent.fallback_reason
    /\ logged[1].fallback_reason # None

\* run was called with a request that is neither of the two commands
PlainRequest ==
  /\ pc # "idle"
  /\ request # <<>>
  /\ ~AnalysisCommand
  /\ ~RecommendationCommand

\* C32: a request given to run that begins with neither command keyword goes
\* through classification and selection, so that a vague request for which no
\* specialized tool qualifies, such as one that contains the word "help", is
\* answered by the fallback agent and logged.
C32_PlainRequestsAreRouted ==
  PlainRequest =>
    /\ intent # NoDict
    /\ intent = analyze_request_intent(request, routing_config)
    /\ (pc = "done" /\ intent.intent = "fallback_to_llm") =>
         /\ calls # <<>>
         /\ calls[1].tool = "general_llm_tool"
         /\ calls[1].outcome # Raised => logged # <<>>

\* the cycle has escalated on a result the specialized tool returned (an
\* error result or an irrelevant one), and the fallback is not yet called
EscalatingOnResult == pc = "fallback" /\ "original_result" \in DOMAIN context

\* the decision an escalation logs: the failed specialized tool, not a
\* fallback, not a success, with the reason of the escalation
EscalationDecision(entry) ==
  /\ entry.selected_tool = intent.selected_tool
  /\ entry.selected_tool \in SpecializedNames
  /\ entry.is_fallback = FALSE
  /\ entry.success = FALSE
  /\ entry.fallback_reason \in {"agent_error", "irrelevant_response"}

\* the decisions of the log that carry a reason
Reasoned ==
  {i \in DOMAIN routing_history :
     /\ HasDecisionKeys(routing_history[i])
     /\ routing_history[i].fallback_reason # None}

\* the decisions of the log that count as fallbacks without being escalations
GateFallbacks ==
  {i \in DOMAIN routing_history :
     /\ routing_history[i].is_fallback
     /\ routing_history[i].fallback_reason = None}

\* C33: a cycle that escalates on an error result or an irrelevant result
\* appends its decision before the fallback agent is called, and the call of
\* the fallback agent revises nothing: the decision names the failed
\* specialized tool with is_fallback false and success false whatever the
\* fallback returns.  Hence every logged decision with a reason has
\* is_fallback false and success false, and the fallback rate of the analysis
\* does not count the escalations.
C33_EscalationLoggedBeforeFallback ==
  [][/\ (EscalatingOnResult' /\ routing_config.enable_learning) =>
          /\ Len(logged') = 1
          /\ intent' = intent
          /\ EscalationDecision(logged'[1])
          /\ routing_history' = Append(routing_history, logged'[1])
          /\ calls'[Len(calls')].tool # "general_llm_tool"
     /\ pc = "fallback" =>
          /\ routing_history' = routing_history
          /\ logged' = logged
          /\ feedback_file' = feedback_file
     /\ \A i \in Reasoned' :
          /\ routing_history'[i].is_fallback = FALSE
          /\ routing_history'[i].success = FALSE
     /\ (pc' = "analyzed" /\ "fallback_rate" \in DOMAIN response') =>
          response'.fallback_rate = Frac(Cardinality(GateFallbacks'), Len(routing_history'))]_vars

\* an escalation on an error result ended with an answer of the fallback
\* agent, and the decision in the log still reports the failed tool
C33_Witness ==
  /\ pc = "done"
  /\ Len(calls) = 2
  /\ calls[2].outcome # Raised
  /\ "error" \notin DOMAIN calls[2].outcome
  /\ Succeeded
  /\ Len(logged) = 1
  /\ EscalationDecision(logged[1])
  /\ routing_history[Len(routing_history)] = logged[1]

(***************************************************************************)
(* C34: whatever the switches, an error-marked result of a specialized     *)
(* tool is followed by a call of the general tool exactly when             *)
(* fallback_for_errors is on, or validate_responses and enable_fallback    *)
(* are both on; the decision logged is agent_error under the first switch  *)
(* and irrelevant_response when only the other two are on.                 *)
(***************************************************************************)
ErrorMarkedResult ==
  /\ pc \in {"fallback", "done", "blocked"}
  /\ SpecializedReturned
  /\ calls[1].outcome # NoReturn
  /\ "error" \in DOMAIN calls[1].outcome

FallbackInvoked == pc = "fallback" \/ (Len(calls) = 2 /\ calls[2].tool = "general_llm_tool")

ErrorEscalates ==
  \/ routing_config.fallback_for_errors
  \/ (routing_config.validate_responses /\ routing_config.enable_fallback)

C34_FallbackOffStillCalled ==
  /\ ErrorMarkedResult
  /\ ~routing_config.enable_fallback /\ routing_config.fallback_for_errors
  /\ Len(calls) = 2 /\ calls[2].tool = "general_llm_tool"

(***************************************************************************)
(* C35: routing does not depend on the log.  Whatever the log and the file *)
(* hold and whatever came before, the analysis of a request is the one     *)
(* its text and the configuration give, the escalation after the first     *)
(* call is the one the analysis, the configuration and the call's outcome  *)
(* give, a fallback chosen at the gate is called with the request as it    *)
(* came and no context, and a routing cycle reads neither the log nor the  *)
(* file: it leaves the log as it was or appends to it.                     *)
(***************************************************************************)
\* the escalation decision as a function of the analysis, the switches and
\* the outcome of the first call
Escalates(intent_analysis, config, req, outcome) ==
  LET is_fallback == is_fallback_intent(intent_analysis)
  IN IF outcome = Raised THEN raised_fallback(is_fallback, config)
     ELSE \/ returned_error(is_fallback, config, outcome)
          \/ /\ validates(is_fallback, config)
             /\ irrelevant_fallback(
                  validate_response_relevance(req, outcome, intent_analysis.selected_tool, config),
                  config)

InCycle == pc \in {"invoke", "fallback", "done", "blocked"} /\ request # <<>>

Extends(longer, shorter) ==
  /\ Len(longer) \in {Len(shorter), Len(shorter) + 1}
  /\ SubSeq(longer, 1, Len(shorter)) = shorter

\* the first call has returned or raised
FirstCallOver == pc \in {"fallback", "done"} \/ (pc = "blocked" /\ Len(calls) = 2)

PersistedUpTo(k) ==
  /\ k <= Len(routing_history)
  /\ \/ Len(routing_history) = k
     \/ /\ feedback_file # NoFile
        /\ feedback_file = LastN(SubSeq(routing_history, 1, Len(routing_history) - k), KeepLast)

FewUnsaved == \E k \in 0..(SavePeriod - 1) : PersistedUpTo(k)

Appended ==
  /\ routing_history' = Append(routing_history, routing_history'[Len(routing_history')])
  /\ \A i \in DOMAIN io' : io'[i].op # "load"

IsFeedback(entry) == "type" \in DOMAIN entry /\ entry.type = "user_feedback"

FlushDue ==
  \/ IsFeedback(routing_history'[Len(routing_history')])
  \/ Len(routing_history') % SavePeriod = 0

C36_FlushBoundsLoss ==
  [][/\ (Len(routing_history') = Len(routing_history) + 1 /\ Appended /\ FlushDue) =>
          /\ io' # <<>> /\ io'[Len(io')] = Saved(TRUE)
          /\ feedback_file' # NoFile
          /\ feedback_file' = LastN(routing_history', KeepLast)
     /\ FewUnsaved']_vars

\* a decision appended and not yet in the file, which holds older entries: a
\* restart now would lose it
C36_Witness ==
  /\ pc = "done"
  /\ Len(logged) = 1
  /\ routing_history # <<>>
  /\ routing_history[Len(routing_history)] = logged[1]
  /\ io = <<>>
  /\ feedback_file # NoFile
  /\ ~PersistedUpTo(0)
  /\ PersistedUpTo(1)

(***************************************************************************)
(* C37: with enable_learning off, no step of a routing cycle, on any path  *)
(* to its end, appends to the log or writes the file; a feedback           *)
(* submission does not look at the switch: it appends its entry and        *)
(* writes the file.                                                        *)
(***************************************************************************)
CycleStep == pc \in {"invoke", "fallback"} \/ pc' \in {"invoke", "fallback", "done", "blocked"}

FeedbackAppends ==
  /\ pc = "idle" /\ pc' = "idle"
  /\ Len(routing_history') = Len(routing_history) + 1
  /\ \A i \in DOMAIN io' : io'[i].op # "load"

C37_LearningOffLogsNothing ==
  [][~routing_config.enable_learning =>
       /\ CycleStep =>
            /\ routing_history' = routing_history
            /\ feedback_file' = feedback_file
            /\ logged' = <<>>
            /\ io' = <<>>
       /\ FeedbackAppends =>
            /\ routing_history' = Append(routing_history, routing_history'[Len(routing_history')])
            /\ IsFeedback(routing_history'[Len(routing_history')])
            /\ Len(io') = 1 /\ io'[1].op = "save"
            /\ io'[1].ok => (feedback_file' # NoFile
                              /\ feedback_file' = LastN(routing_history', KeepLast))]_vars

\* learning off: a cycle has ended after an escalation and left the log and
\* the file with the feedback submitted before it, and nothing else
C37_Witness ==
  /\ ~routing_config.enable_learning
  /\ pc = "done" /\ Len(calls) = 2
  /\ logged = <<>>
  /\ Len(routing_history) = 1
  /\ IsFeedback(routing_history[1])
  /\ feedback_file # NoFile
  /\ feedback_file = routing_history

(***************************************************************************)
(* C38: after a load that failed at startup the log starts empty and       *)
(* holds only what has been appended since; the file keeps what the        *)
(* earlier process left until a save succeeds, and that save replaces it   *)
(* with the tail of the log: none of the earlier entries is kept.          *)
(***************************************************************************)
Range(seq) == {seq[i] : i \in DOMAIN seq}

SinceStartupOnly == Range(routing_history) \cap OldEntries = {}

FileUntouched == feedback_file \in PersistedBefore

FileOverwritten ==
  /\ Range(feedback_file) \cap OldEntries = {}
  /\ \E j \in 1..Len(routing_history) :
       feedback_file = LastN(SubSeq(routing_history, 1, j), KeepLast)

\* the step has ended with a write of the file that succeeded
SavedNow ==
  /\ io' # <<>>
  /\ io'[Len(io')] = Saved(TRUE)
  /\ io' # io \/ routing_history' # routing_history

C38_FailedLoadDiscards ==
  [][/\ SinceStartupOnly'
     /\ FileUntouched' \/ FileOverwritten'
     /\ SavedNow => (FileOverwritten' /\ feedback_file' = LastN(routing_history', KeepLast))
     /\ ~SavedNow => feedback_file' = feedback_file]_vars

\* the first save after the failed load has succeeded: the file holds the
\* tail of the new log and nothing of what the earlier process left
C38_Witness ==
  /\ io # <<>> /\ io[Len(io)] = Saved(TRUE)
  /\ routing_history # <<>>
  /\ SinceStartupOnly
  /\ FileOverwritten
  /\ feedback_file = LastN(routing_history, KeepLast)

(***************************************************************************)
(* C39: with the two specialized tools of the registry the confidence of   *)
(* the top tool is at least 1/2 whenever a trigger term matches, so at the *)
(* default threshold of 1/2 the confidence test never rejects: a           *)
(* specialized tool is selected exactly when the top count reaches         *)
(* min_keyword_matches (2 by default), and a tie of two terms each selects *)
(* the first tool of the registry with confidence 1/2.                     *)
(***************************************************************************)
TopCount(counts) ==
  IF counts["aws_resource_tool"] >= counts["network_troubleshoot_tool"]
  THEN counts["aws_resource_tool"]
  ELSE counts["network_troubleshoot_tool"]

Classified == pc # "idle" /\ intent # NoDict

DefaultThreshold ==
  routing_config.min_confidence_threshold = DefaultConfig.min_confidence_threshold

C39_DefaultThresholdNeverRejects ==
  Classified =>
    LET counts == MatchCounts(request)
        top == TopCount(counts)
    IN /\ Cardinality(specialized_tools) = 2
       /\ top > 0 => FracGeq(Frac(top, Total(counts)), Frac(1, 2))
       /\ DefaultThreshold =>
            /\ intent.intent = "specialized_tool" <=> top >= routing_config.min_keyword_matches
            /\ intent.intent = "specialized_tool" =>
                 /\ intent.confidence = Frac(top, Total(counts))
                 /\ FracGeq(intent.confidence, Frac(1, 2))
       /\ (routing_config.min_confidence_threshold = DefaultConfig.min_confidence_threshold
           /\ routing_config.min_keyword_matches = DefaultConfig.min_keyword_matches
           /\ counts["aws_resource_tool"] = 2
           /\ counts["network_troubleshoot_tool"] = 2) =>
            /\ intent.intent = "specialized_tool"
            /\ intent.selected_tool = tools[1].name
            /\ intent.confidence = Frac(1, 2)

\* the default gate on a request with two terms of each tool
C39_Witness ==
  /\ Classified
  /\ DefaultThreshold
  /\ routing_config.min_keyword_matches = DefaultConfig.min_keyword_matches
  /\ MatchCounts(request)["aws_resource_tool"] = 2
  /\ MatchCounts(request)["network_troubleshoot_tool"] = 2
  /\ intent.intent = "specialized_tool"
  /\ intent.selected_tool = "aws_resource_tool"
  /\ intent.confidence = Frac(1, 2)

(***************************************************************************)
(* C40: a recommendation command whose sub-query has no word, given while  *)
(* the window of the log holds an entry whose request has no word, makes   *)
(* the similarity 0/0: run returns the error dict with success false, not  *)
(* recommendations, and the log and the file stay as they were.            *)
(***************************************************************************)
\* the words of the text that follows the command in the input of run
SubQueryWords(input_data) == SplitFrom(lower(sub_query(RequestText(input_data))), 1, <<>>)

\* the window get_routing_recommendations scans holds a request without words
BlankScanned ==
  \E i \in DOMAIN LastN(routing_history, WindowSize) :
    words_of(LastN(routing_history, WindowSize)[i].request) = {}

RecommendedOnBlank ==
  /\ pc = "recommended"
  /\ RecommendationCommand
  /\ SubQueryWords(request) = {}
  /\ BlankScanned

C40_EmptyJaccardIsError ==
  /\ [](RecommendedOnBlank =>
          /\ response = [error |-> "ZeroDivisionError", input |-> request, success |-> FALSE]
          /\ "recommendations" \notin DOMAIN response)
  /\ [][pc' = "recommended" =>
          /\ routing_history' = routing_history
          /\ feedback_file' = feedback_file]_vars

C40_Witness ==
  /\ RecommendedOnBlank
  /\ request = <<"routing recommendations for:">>
  /\ "error" \in DOMAIN response
  /\ response.success = FALSE
====
